---- MODULE Spec2Model ----
(***************************************************************************)
(* A model of DANTON: the library (danton_sampler_update, danton_run,      *)
(* transport_forward, transport_backward) and the command-line program     *)
(* (main, transport).  The three physics engines (ENT, PUMAS, ALOUETTE)    *)
(* are external: each of their calls is a nondeterministic choice over the *)
(* outcomes their interface allows.                                        *)
(***************************************************************************)
EXTENDS Integers, Sequences, FiniteSets, TLC

VARIABLES
    sampler,    \* struct event_sampler: api fields, neutrino_weight, total_weight, hash
    mutated,    \* a field of the sampler was changed since the last successful update
    ctx,        \* struct simulation_context (the fields danton_run configures)
    file,       \* the file at api.output: [exists, lines]
    proc,       \* "running", or "exited" once exit() was called
    call,       \* the API call that returned last: function, return code, diagnostic, effects
    t           \* the transport of events: configuration, call stack, output lines

vars == <<sampler, mutated, ctx, file, proc, call, t>>

(***************************************************************************)
(* Doubles are IEEE-754 binary64 values, kept as their 8 bytes in memory   *)
(* order (little endian), which is what hash() reads.                      *)
(***************************************************************************)
D_m91  == <<0, 0, 0, 0, 0, 192, 86, 192>>      \* -91.
D_m90  == <<0, 0, 0, 0, 0, 128, 86, 192>>      \* -90.
D_m1   == <<0, 0, 0, 0, 0, 0, 240, 191>>       \* -1.
D_0    == <<0, 0, 0, 0, 0, 0, 0, 0>>           \* 0.
D_0p3  == <<51, 51, 51, 51, 51, 51, 211, 63>>  \* 0.3
D_1    == <<0, 0, 0, 0, 0, 0, 240, 63>>        \* 1.
D_2    == <<0, 0, 0, 0, 0, 0, 0, 64>>          \* 2.
D_90   == <<0, 0, 0, 0, 0, 128, 86, 64>>       \* 90.
D_91   == <<0, 0, 0, 0, 0, 192, 86, 64>>       \* 91.
D_99   == <<0, 0, 0, 0, 0, 192, 88, 64>>       \* 99.
D_100  == <<0, 0, 0, 0, 0, 0, 89, 64>>         \* 1E+02
D_1E12 == <<0, 0, 0, 162, 148, 26, 109, 66>>   \* 1E+12
D_NaN  == <<0, 0, 0, 0, 0, 0, 248, 127>>       \* a quiet NaN

\* The sign bit, the 11 exponent bits and the test for a non-zero mantissa.
DNeg(d) == d[8] >= 128
DExp(d) == (d[8] % 128) * 16 + (d[7] \div 16)
DMantNonZero(d) == (d[7] % 16 # 0) \/ (\E i \in 1..6 : d[i] # 0)
DIsNaN(d) == DExp(d) = 2047 /\ DMantNonZero(d)
DIsZero(d) == DExp(d) = 0 /\ ~DMantNonZero(d)

\* Byte i of the magnitude (the sign bit cleared).
DMagByte(d, i) == IF i = 8 THEN d[8] % 128 ELSE d[i]

\* |a| < |b|: the magnitudes compare as 63-bit integers, high byte first.
DMagLt(a, b) ==
    \E i \in 1..8 :
        /\ DMagByte(a, i) < DMagByte(b, i)
        /\ \A j \in (i + 1)..8 : DMagByte(a, j) = DMagByte(b, j)

\* The C operators <, >, ==, <= and >= on doubles: all false on a NaN.
DLt(a, b) ==
    /\ ~DIsNaN(a)
    /\ ~DIsNaN(b)
    /\ IF DNeg(a) /\ ~DNeg(b) THEN ~(DIsZero(a) /\ DIsZero(b))
       ELSE IF ~DNeg(a) /\ DNeg(b) THEN FALSE
       ELSE IF DNeg(a) THEN DMagLt(b, a)
       ELSE DMagLt(a, b)
DGt(a, b) == DLt(b, a)
DEq(a, b) ==
    /\ ~DIsNaN(a)
    /\ ~DIsNaN(b)
    /\ (a = b \/ (DIsZero(a) /\ DIsZero(b)))
DLe(a, b) == DLt(a, b) \/ DEq(a, b)
DGe(a, b) == DLe(b, a)

(***************************************************************************)
(* The sampler.                                                            *)
(***************************************************************************)
DANTON_PARTICLE_N == 8

\* enum danton_particle, as 1-based positions in the weight array.
DANTON_PARTICLE_NU_TAU == 6
DANTON_PARTICLE_TAU_BAR == 7
DANTON_PARTICLE_TAU == 8

EXIT_SUCCESS == "EXIT_SUCCESS"
EXIT_FAILURE == "EXIT_FAILURE"

\* The bytes of struct danton_sampler followed by the endstr byte of struct
\* event_sampler: the string hash() is given.
RECURSIVE Flatten(_)
Flatten(ds) == IF ds = <<>> THEN <<>> ELSE Head(ds) \o Flatten(Tail(ds))

SamplerBytes(api) ==
    Flatten(api.altitude \o api.cos_theta \o api.elevation \o api.energy
            \o api.weight) \o <<0>>

\* hash * 33 + c on a 64-bit unsigned long, kept as 8 bytes, low byte first.
Mul33Add(h, c) ==
    LET t1 == h[1] * 33 + c
        t2 == h[2] * 33 + (t1 \div 256)
        t3 == h[3] * 33 + (t2 \div 256)
        t4 == h[4] * 33 + (t3 \div 256)
        t5 == h[5] * 33 + (t4 \div 256)
        t6 == h[6] * 33 + (t5 \div 256)
        t7 == h[7] * 33 + (t6 \div 256)
        t8 == h[8] * 33 + (t7 \div 256)
    IN  <<t1 % 256, t2 % 256, t3 % 256, t4 % 256,
          t5 % 256, t6 % 256, t7 % 256, t8 % 256>>

\* The loop of hash(): it stops at the first zero byte.
RECURSIVE hash_loop(_, _, _)
hash_loop(h, str, i) ==
    IF str[i] = 0 THEN h ELSE hash_loop(Mul33Add(h, str[i]), str, i + 1)

\* Bernstein's djb2 hash, starting from 5381 = 0x1505.
hash(str) == hash_loop(<<5, 21, 0, 0, 0, 0, 0, 0>>, str, 1)

\* A weight of the sampler as a count: the model uses the weights 0. and 1.
WeightOf(d) == IF DGt(d, D_0) THEN 1 ELSE 0

RECURSIVE SumWeights(_, _, _)
SumWeights(w, i, n) ==
    IF i > n THEN 0 ELSE WeightOf(w[i]) + SumWeights(w, i + 1, n)

\* The four range checks of danton_sampler_update, in the order of the code;
\* "" when all pass.
update_check(api) ==
    IF DLt(api.altitude[1], D_0) \/ DGt(api.altitude[1], api.altitude[2])
    THEN "invalid altitude value(s)"
    ELSE IF \/ DLt(api.cos_theta[1], D_0)
            \/ DGt(api.cos_theta[1], api.cos_theta[2])
            \/ DGt(api.cos_theta[2], D_1)
    THEN "invalid cos(theta) value(s)"
    ELSE IF \/ DLt(api.elevation[1], D_m90)
            \/ DGt(api.elevation[1], api.elevation[2])
            \/ DGt(api.elevation[2], D_90)
    THEN "invalid elevation value(s)"
    ELSE IF \/ DLt(api.energy[1], D_100)
            \/ DGt(api.energy[1], api.energy[2])
            \/ DLt(api.energy[2], D_1E12)
    THEN "invalid energy values"
    ELSE ""

NoCall == [fn |-> "none", rc |-> "none", err |-> "", transported |-> 0,
           wrote |-> 0]

\* danton_sampler_create: a zeroed struct, then hash-- (all bits set).
danton_sampler_create ==
    [api |-> [altitude |-> <<D_0, D_0>>, cos_theta |-> <<D_0, D_0>>,
              elevation |-> <<D_0, D_0>>, energy |-> <<D_0, D_0>>,
              weight |-> [i \in 1..DANTON_PARTICLE_N |-> D_0]],
     neutrino_weight |-> 0, total_weight |-> 0,
     hash |-> <<255, 255, 255, 255, 255, 255, 255, 255>>]

\* danton_sampler_update.
danton_sampler_update ==
    /\ proc = "running"
    /\ LET err == update_check(sampler.api)
           nw == SumWeights(sampler.api.weight, 1, DANTON_PARTICLE_N - 2)
           tw == nw + WeightOf(sampler.api.weight[DANTON_PARTICLE_TAU_BAR])
                    + WeightOf(sampler.api.weight[DANTON_PARTICLE_TAU])
       IN  IF err # ""
           THEN /\ call' = [NoCall EXCEPT !.fn = "update",
                                          !.rc = EXIT_FAILURE, !.err = err]
                /\ UNCHANGED <<sampler, mutated>>
           ELSE /\ sampler' = [sampler EXCEPT
                                   !.neutrino_weight = nw,
                                   !.total_weight = tw,
                                   !.hash = hash(SamplerBytes(sampler.api))]
                /\ mutated' = FALSE
                /\ call' = [NoCall EXCEPT !.fn = "update", !.rc = EXIT_SUCCESS]
    /\ UNCHANGED <<ctx, file, proc, t>>

(***************************************************************************)
(* The caller's assignments to the fields of the sampler.                  *)
(***************************************************************************)
\* The weight array with weight[NU_TAU] = nu and weight[TAU] = tau, others 0.
Weights(nu, tau) ==
    [i \in 1..DANTON_PARTICLE_N |->
        IF i = DANTON_PARTICLE_NU_TAU THEN nu
        ELSE IF i = DANTON_PARTICLE_TAU THEN tau ELSE D_0]

\* The values the caller may give to each field of the sampler.
FieldDomain(f) ==
    CASE f = "altitude" -> {<<D_0, D_0>>, <<D_0, D_0p3>>, <<D_0p3, D_0p3>>}
      [] f = "cos_theta" -> {<<D_0, D_0>>, <<D_0, D_0p3>>}
      [] f = "elevation" -> {<<D_0, D_0>>, <<D_0, D_0p3>>}
      [] f = "energy" -> {<<D_0, D_0>>, <<D_100, D_1E12>>}
      [] f = "weight" -> {Weights(nu, tau) : nu, tau \in {D_0, D_1}}

\* The caller stores a new value in a field: sampler->f[0] = ..., f[1] = ...
SetField ==
    /\ proc = "running"
    /\ \E f \in DOMAIN sampler.api : \E v \in FieldDomain(f) \ {sampler.api[f]} :
            sampler' = [sampler EXCEPT !.api[f] = v]
    /\ mutated' = TRUE
    /\ call' = NoCall
    /\ UNCHANGED <<ctx, file, proc, t>>

(***************************************************************************)
(* The context.                                                            *)
(***************************************************************************)
NoContext == [created |-> FALSE, flux_neutrino |-> 0, primary_dumped |-> 0]

\* random_initialise: exit(EXIT_FAILURE) when /dev/urandom cannot be read.
random_initialise(entropy) == IF entropy THEN "running" ELSE "exited"

\* danton_context_create: random_initialise, then the defaults of the internal
\* flags.
danton_context_create ==
    /\ proc = "running"
    /\ ~ctx.created
    /\ \E entropy \in BOOLEAN :
         /\ proc' = random_initialise(entropy)
         /\ IF proc' = "exited"
            THEN /\ ctx' = ctx
                 /\ call' = [NoCall EXCEPT !.fn = "create", !.rc = "exit",
                                !.err = "could not Initialise PRNG"]
            ELSE /\ ctx' = [NoContext EXCEPT !.created = TRUE]
                 /\ call' = [NoCall EXCEPT !.fn = "create", !.rc = "context"]
    /\ UNCHANGED <<sampler, mutated, file, t>>

(***************************************************************************)
(* danton_run.                                                             *)
(***************************************************************************)
\* The number of events a caller asks for is 0..MaxEvents.
MaxEvents == 2

Fail(err, flux) == [rc |-> EXIT_FAILURE, err |-> err, events |-> 0,
                    flux_neutrino |-> flux]
Pass(events, flux) == [rc |-> EXIT_SUCCESS, err |-> "", events |-> events,
                       flux_neutrino |-> flux]

\* sampler_->hash != hash((unsigned char *)sampler)
hash_differs(s) == s.hash # hash(SamplerBytes(s.api))

\* "Check and configure the context according to the API": the checks of
\* danton_run, with the value flux_neutrino has afterwards and the number of
\* events to run.  stale is the outcome of the comparison of the hashes.
run_check(api, events, stale) ==
    IF ~api.sampler THEN Fail("no sampler was provided", ctx.flux_neutrino)
    ELSE IF stale THEN Fail("sampler has not been updated", ctx.flux_neutrino)
    ELSE IF api.grammage
    THEN IF api.forward
         THEN IF DEq(sampler.api.cos_theta[1], sampler.api.cos_theta[2])
              THEN Pass(1, 1)
              ELSE IF events < 2
              THEN Fail("numbers of bins must be 2 or more", ctx.flux_neutrino)
              ELSE Pass(events, 1)
         ELSE IF DEq(sampler.api.elevation[1], sampler.api.elevation[2])
              THEN Pass(1, ctx.flux_neutrino)
              ELSE IF events < 2
              THEN Fail("numbers of bins must be 2 or more", ctx.flux_neutrino)
              ELSE Pass(events, ctx.flux_neutrino)
    ELSE IF sampler.total_weight <= 0
    THEN Fail("no particle to sample", ctx.flux_neutrino)
    ELSE LET flux == IF api.forward
                     THEN (IF sampler.neutrino_weight > 0 THEN 1 ELSE 0)
                     ELSE ctx.flux_neutrino
         IN  IF ~api.decay THEN Pass(events, flux)
             ELSE IF sampler.neutrino_weight = sampler.total_weight
             THEN Fail("no tau(s) target to decay", flux)
             ELSE IF ~api.forward THEN Pass(events, flux)
             ELSE IF sampler.neutrino_weight > 0
             THEN Fail("combining neutrino(s) and tau(s) sampling", flux)
             ELSE IF DEq(sampler.api.altitude[1], sampler.api.altitude[2])
             THEN Fail("no altitude range for tau(s) decays", flux)
             ELSE Pass(events, flux)

\* output_create: stdout when api.output is NULL, else fopen(output, "w+"),
\* which creates or truncates the file, or fails.
output_create(output) ==
    CASE output = "NULL" -> [stream |-> "stdout", file |-> file]
      [] output = "path" ->
            [stream |-> "file", file |-> [exists |-> TRUE, lines |-> <<>>]]
      [] output = "unwritable" -> [stream |-> "NULL", file |-> file]

\* What the loop over n events writes after the header: nothing, or the record
\* lines of the events (a grammage line per event in grammage mode, else the
\* lines transport_forward or transport_backward write, which may be none).
RunRecords(api, n) ==
    IF n = 0 THEN {<<>>}
    ELSE IF api.grammage THEN {<<"records">>}
    ELSE {<<>>, <<"records">>}

\* fprintf to the stream.
output_write(f, stream, lines) ==
    IF stream = "file" THEN [f EXCEPT !.lines = @ \o lines] ELSE f

\* The public fields of the context, which the caller sets before the call;
\* api.output is NULL, the path of a file that can be opened, or one that cannot.
\* api.sampler is NULL (FALSE) or points to the sampler (TRUE).
ApiSet ==
    [forward : BOOLEAN, decay : BOOLEAN, grammage : BOOLEAN, sampler : BOOLEAN]

Outputs == {"NULL", "path", "unwritable"}

\* The output streams danton_run may get, api.output being any of Outputs:
\* none when a check has failed (every check returns before "Configure the
\* output stream"), else what output_create gives.
run_sink_early(chk) == {output_create(output) : output \in Outputs}

run_sink(chk) ==
    IF chk.rc = EXIT_FAILURE THEN {[stream |-> "none", file |-> file]}
    ELSE {output_create(output) : output \in Outputs}

danton_run ==
    /\ proc = "running"
    /\ ctx.created
    /\ \E stale \in {hash_differs(sampler)} :
       \E api \in ApiSet : \E events \in 0..MaxEvents :
         LET chk == run_check(api, events, stale)
         IN  \E out \in run_sink(chk) :
             /\ ctx' = [ctx EXCEPT
                    !.flux_neutrino = chk.flux_neutrino,
                    !.primary_dumped =
                        IF chk.rc = EXIT_SUCCESS /\ out.stream # "NULL"
                        THEN 0 ELSE @]
             /\ IF chk.rc = EXIT_FAILURE
                THEN /\ file' = out.file
                     /\ call' = [NoCall EXCEPT !.fn = "run",
                                    !.rc = EXIT_FAILURE, !.err = chk.err]
                     /\ UNCHANGED proc
                ELSE IF out.stream = "NULL"
                THEN /\ file' = out.file
                     /\ proc' = "exited"
                     /\ call' = [NoCall EXCEPT !.fn = "run", !.rc = "exit",
                                    !.err = "could not open the output file"]
                ELSE \E recs \in RunRecords(api, chk.events) :
                     /\ file' = output_write(out.file, out.stream,
                                             <<"header">> \o recs)
                     /\ call' = [NoCall EXCEPT !.fn = "run",
                                    !.rc = EXIT_SUCCESS,
                                    !.transported = chk.events,
                                    !.wrote = 1 + Len(recs)]
                     /\ UNCHANGED proc
    /\ UNCHANGED <<sampler, mutated, t>>

(***************************************************************************)
(* The library as its caller drives it.                                    *)
(***************************************************************************)
NoTransport == [prog |-> "none"]

Init ==
    /\ sampler = danton_sampler_create
    /\ mutated = FALSE
    /\ ctx = NoContext
    /\ file \in {[exists |-> FALSE, lines |-> <<>>],
                 [exists |-> TRUE, lines |-> <<"old">>]}
    /\ proc = "running"
    /\ call = NoCall
    /\ t = NoTransport

Next ==
    \/ SetField
    \/ danton_sampler_update
    \/ danton_context_create
    \/ danton_run

Spec == Init /\ [][Next]_vars

(***************************************************************************)
(* danton_sampler_update on its own, over a wider range of field values.   *)
(***************************************************************************)
InitSampler ==
    /\ \E api \in
            [altitude : {D_m1, D_0, D_0p3, D_NaN} \X {D_0, D_0p3, D_NaN},
             cos_theta : {D_m1, D_0, D_1} \X {D_0, D_1, D_2},
             elevation : {D_m91, D_m90, D_90} \X {D_m90, D_90, D_91},
             energy : {D_99, D_100, D_1E12, D_NaN} \X {D_100, D_1E12, D_NaN},
             weight : {Weights(D_0, D_1)}] :
         sampler = [danton_sampler_create EXCEPT !.api = api]
    /\ mutated = FALSE
    /\ ctx = NoContext
    /\ file = [exists |-> FALSE, lines |-> <<>>]
    /\ proc = "running"
    /\ call = NoCall
    /\ t = NoTransport

SpecSampler == InitSampler /\ [][danton_sampler_update]_vars

(***************************************************************************)
(* The transport of the events of one run.  t holds what danton_run and    *)
(* the transport routines keep between two calls of an engine: the mode    *)
(* flags, the projectile, the index of the event, the stack of the calls   *)
(* of the recursive routine, the counters of the taus logged, and out,     *)
(* the lines appended to the output since the event began.  The engines    *)
(* (ENT, PUMAS, ALOUETTE) are choices among what their interfaces allow.   *)
(* Energies are levels: 0 is at or below the cut, MaxEnergy the highest.   *)
(***************************************************************************)
MaxEnergy == 2

ENT_PID_NU_BAR_E == -12
ENT_PID_NU_E == 12
ENT_PID_MUON == 13
ENT_PID_NU_MU == 14
ENT_PID_TAU == 15
ENT_PID_NU_TAU == 16
ENT_PID_HADRON == 100

\* abs() of stdlib.
Abs(x) == IF x < 0 THEN -x ELSE x

\* danton_particle_pdg, for the index of a particle (from 1).
danton_particle_pdg(j) ==
    <<-ENT_PID_NU_TAU, -ENT_PID_NU_MU, ENT_PID_NU_BAR_E, ENT_PID_NU_E,
      ENT_PID_NU_MU, ENT_PID_NU_TAU, -ENT_PID_TAU, ENT_PID_TAU>>[j]

\* "Temporary hack for the projectile": NU_TAU, or in a run that is not a
\* grammage scan the first particle with a positive weight.
Projectile(api) ==
    IF api.grammage
       \/ \A j \in 1..DANTON_PARTICLE_N : WeightOf(sampler.api.weight[j]) = 0
    THEN ENT_PID_NU_TAU
    ELSE danton_particle_pdg(
            CHOOSE j \in 1..DANTON_PARTICLE_N :
                /\ WeightOf(sampler.api.weight[j]) > 0
                /\ \A k \in 1..(j - 1) : WeightOf(sampler.api.weight[k]) = 0)

\* The flavours the transport routines take: nu_e_bar, nu_tau, nu_tau_bar.
Transportable(pid) == pid = ENT_PID_NU_BAR_E \/ Abs(pid) = ENT_PID_NU_TAU

(***************************************************************************)
(* The engines.                                                            *)
(***************************************************************************)
NoProduct == [pid |-> 0, energy |-> 0]

\* ent_transport of a neutrino of flavour pid and energy e: it leaves the
\* geometry (EXIT), or interacts: a neutral current keeps the flavour, a
\* charged current turns a nu_tau into its tau and a nu_e_bar into a positron,
\* a nu_e_bar on an electron may give a nu_tau_bar and a tau.  The neutrino
\* that goes on is a level lower, a tau keeps the level of the neutrino that
\* made it; with no physics there is no interaction.
ent_transport(pid, e, physics) ==
    LET exit == [event |-> "EXIT", pid |-> pid, energy |-> e,
                 product |-> NoProduct]
        hadron == [pid |-> ENT_PID_HADRON, energy |-> 0]
        nc == [event |-> "INTERACTION", pid |-> pid, energy |-> e - 1,
               product |-> hadron]
        cc == IF Abs(pid) = ENT_PID_NU_TAU
              THEN [event |-> "INTERACTION",
                    pid |-> IF pid > 0 THEN ENT_PID_TAU ELSE -ENT_PID_TAU,
                    energy |-> e, product |-> hadron]
              ELSE [event |-> "INTERACTION", pid |-> -11,
                    energy |-> e, product |-> hadron]
        gr == IF pid = ENT_PID_NU_BAR_E
              THEN {[event |-> "INTERACTION", pid |-> -ENT_PID_NU_TAU,
                     energy |-> e - 1,
                     product |-> [pid |-> ENT_PID_TAU, energy |-> e]]}
              ELSE {}
    IN  IF physics /\ e > 0 THEN {exit, nc, cc} \cup gr ELSE {exit}

\* What the medium callback does to the flux fields of the state of a
\* neutrino during one ent_transport: with the flux boundary armed
\* (!decay && has_crossed >= 0) the first call classifies is_inside, a later
\* one may find the boundary crossed, set has_crossed and stop the transport.
medium_flux(nu, decay, event) ==
    IF ~decay /\ nu.has_crossed >= 0
    THEN {[is_inside |-> ii, has_crossed |-> hc] :
            ii \in (IF nu.is_inside < 0 THEN {0, 1} ELSE {nu.is_inside}),
            hc \in {nu.has_crossed} \cup (IF event = "EXIT" THEN {1} ELSE {})}
    ELSE {[is_inside |-> nu.is_inside, has_crossed |-> nu.has_crossed]}

NoTau == [decayed |-> FALSE, medium |-> -1, r_low |-> FALSE,
          has_crossed |-> 0]

\* pumas_transport of a tau in the library: it decays or not, tau_data.medium
\* and tau_data.r (r_low: r <= EARTH_RADIUS + altitude[0] + FLT_EPSILON) are
\* those of the last call of the medium callback; a tau with the flux
\* boundary armed may cross it, which ends its transport outside any medium.
pumas_transport(flux, decay) ==
    LET armed == ~decay /\ flux = 0
        hc0 == IF flux = 1 THEN -1 ELSE 0
    IN  {u \in [decayed : BOOLEAN, medium : {-1, 9, 10}, r_low : BOOLEAN,
                 has_crossed : {hc0}] :
            /\ flux = 0 => ~u.r_low
            /\ (u.medium \in 0..9 /\ flux = 1) => u.r_low}
        \cup (IF armed THEN {[decayed |-> FALSE, medium |-> -1,
                              r_low |-> FALSE, has_crossed |-> 1]}
              ELSE {})

\* alouette_decay and the alouette_product calls that follow: the products of
\* a decay of the tau (of its antiparticle with the signs reversed), or none
\* when the twenty trials have failed: nu_tau e- nu_e_bar, nu_tau mu-
\* nu_mu_bar, nu_tau pi- pi0.
DecayChannels(pid) ==
    LET s == IF pid > 0 THEN 1 ELSE -1
    IN  {<<>>,
         <<s * ENT_PID_NU_TAU, s * 11, -s * ENT_PID_NU_E>>,
         <<s * ENT_PID_NU_TAU, s * ENT_PID_MUON, -s * ENT_PID_NU_MU>>,
         <<s * ENT_PID_NU_TAU, -s * 211, 111>>}

\* for (trials = 0; trials < 20; trials++) if (alouette_decay(...) ==
\* ALOUETTE_RETURN_SUCCESS) break;  The engine fails n times before it
\* succeeds: the number of calls made, and whether one succeeded.
DecayTrials == 20

decay_no_break(n) == [calls |-> DecayTrials, ok |-> n < DecayTrials]

decay_trials(n) ==
    LET hits == {trials \in 0..(DecayTrials - 1) : trials = n}
    IN  IF hits = {} THEN [calls |-> DecayTrials, ok |-> FALSE]
        ELSE [calls |-> 1 + CHOOSE trials \in hits :
                                \A h \in hits : trials <= h,
              ok |-> TRUE]

\* No decay in the last turn of the loop.
NoDecay == [fails |-> 0, calls |-> 0, ok |-> TRUE]

(***************************************************************************)
(* The output lines.                                                       *)
(***************************************************************************)
\* The line of the ancestor state: the index of the event and its flavour.
format_ancestor(ev, pid) == [k |-> "ancestor", ev |-> ev, pid |-> pid]
\* The two lines of format_tau, the production and the end of the tau; the
\* first is tagged with the rank of the pair and with what tau_data held:
\* whether the tau decayed, and its medium index.
format_tau(id, gen, pid, u) ==
    <<[k |-> "tau", id |-> id, gen |-> gen, pid |-> pid,
       decayed |-> u.decayed, medium |-> u.medium],
      [k |-> "tau_end", id |-> id]>>
format_decay_product(id, pid) == [k |-> "product", id |-> id, pid |-> pid]
format_neutrino(gen, pid) == [k |-> "neutrino", gen |-> gen, pid |-> pid]
format_grammage == [k |-> "grammage"]

\* The rank of the next tau pair among those of the event.
NextId(out) == 1 + Cardinality({j \in DOMAIN out : out[j].k = "tau"})

\* if (!context->primary_dumped) { format_ancestor; primary_dumped = 1; }
dump_always(m) ==
    [m EXCEPT !.t.out = Append(@, format_ancestor(m.t.i, m.t.projectile)),
              !.ctx.primary_dumped = 1]

dump_primary(m) ==
    IF m.ctx.primary_dumped = 0
    THEN [m EXCEPT !.t.out = Append(@, format_ancestor(m.t.i, m.t.projectile)),
                   !.ctx.primary_dumped = 1]
    ELSE m

\* The lines of a decay in the order the loop over the products writes them:
\* format_tau at the first logged product, then a line per logged product.
decay_block_late(pair, prods) == prods \o pair

decay_block(pair, prods) == pair \o prods

write_decay(m, gen, pid, u, logged) ==
    LET id == NextId(m.t.out)
    IN  [m EXCEPT !.t.out = @ \o decay_block(format_tau(id, gen, pid, u),
            [j \in 1..Len(logged) |-> format_decay_product(id, logged[j])])]

(***************************************************************************)
(* transport_forward of the library.  A frame of the stack is one call:    *)
(* its neutrino (with the flux fields of its generic_state), its           *)
(* generation, the daughters nu_e and nu_t of the last decay (<<>> for     *)
(* NULL) and pc, where the call stands: at its entry, at ent_transport in  *)
(* the loop, before the call for nu_e or for nu_t, at the end of the body  *)
(* of the loop, or at its return.  A direction is "primary", that of the   *)
(* primary of the event, or "scattered", another one; direction is the     *)
(* backup the call makes of the direction of its neutrino; t.dirs holds    *)
(* the directions of the particles written to the output in the event.     *)
(***************************************************************************)
Frame(nu, gen) ==
    [nu |-> nu, gen |-> gen, pc |-> "enter", nu_e |-> <<>>, nu_t |-> <<>>,
     direction |-> nu.dir]

SetPc(m, pc) == [m EXCEPT !.t.stack[1].pc = pc]

\* The calls and returns between two calls of ent_transport: the entry test
\* on the flavour, the two recursive calls after a decay, the test that ends
\* the loop, the return to the caller.
RECURSIVE forward_control(_)
forward_control(m) ==
    IF m.t.stack = <<>> THEN m
    ELSE LET f == Head(m.t.stack)
         IN  CASE f.pc = "loop" -> m
               [] f.pc = "enter" ->
                    forward_control(SetPc(m,
                        IF Transportable(f.nu.pid) THEN "loop" ELSE "return"))
               [] f.pc = "call_e" ->
                    forward_control(
                        IF f.nu_e = <<>> THEN SetPc(m, "call_t")
                        ELSE [m EXCEPT !.t.stack =
                                <<Frame(f.nu_e[1], f.gen)>>
                                \o <<[f EXCEPT !.pc = "call_t"]>>
                                \o Tail(m.t.stack)])
               [] f.pc = "call_t" ->
                    forward_control(
                        IF f.nu_t = <<>> THEN SetPc(m, "end")
                        ELSE [m EXCEPT !.t.stack =
                                <<Frame(f.nu_t[1], f.gen)>>
                                \o <<[f EXCEPT !.pc = "end"]>>
                                \o Tail(m.t.stack)])
               [] f.pc = "end" ->
                    forward_control(SetPc(m,
                        IF Transportable(f.nu.pid) THEN "loop" ELSE "return"))
               [] f.pc = "return" ->
                    forward_control([m EXCEPT !.t.stack = Tail(@)])

\* The test of the loop over the products of a decay in transport_forward: a
\* product is logged unless it is a nu_tau, a nu_e_bar, or, "!api.decay ||
\* pid == 12 || abs(pid) == 13 || abs(pid) == 14".
forward_logged_any_mode(pid, decay) ==
    /\ Abs(pid) # ENT_PID_NU_TAU
    /\ pid # ENT_PID_NU_BAR_E
    /\ ~(pid = ENT_PID_NU_E \/ Abs(pid) = ENT_PID_MUON
            \/ Abs(pid) = ENT_PID_NU_MU)

forward_logged(pid, decay) ==
    /\ Abs(pid) # ENT_PID_NU_TAU
    /\ pid # ENT_PID_NU_BAR_E
    /\ ~(~decay \/ pid = ENT_PID_NU_E \/ Abs(pid) = ENT_PID_MUON
            \/ Abs(pid) = ENT_PID_NU_MU)

\* "Log the decay if in air": if (tau_data.medium < 10) continue;
in_any_shell(medium) == medium >= 0

in_air(medium) == medium >= 10

RECURSIVE forward_products(_, _, _)
forward_products(ch, decay, medium) ==
    IF ch = <<>> THEN <<>>
    ELSE (IF forward_logged(Head(ch), decay) /\ in_air(medium)
          THEN <<Head(ch)>> ELSE <<>>)
         \o forward_products(Tail(ch), decay, medium)

\* The last product of flavour pid0 (or its antiparticle when anti is set).
RECURSIVE LastOf(_, _, _)
LastOf(ch, pid0, anti) ==
    IF ch = <<>> THEN <<>>
    ELSE LET rest == LastOf(Tail(ch), pid0, anti)
         IN  IF rest # <<>> THEN rest
             ELSE IF Head(ch) = pid0 \/ (anti /\ Head(ch) = -pid0)
             THEN <<Head(ch)>> ELSE <<>>

\* pumas_transport on the direction of a tau: the context of PUMAS is left
\* as pumas_context_create made it, with its transverse transport on, so the
\* tau ends with a direction of its own.
pumas_direction(dir) == "scattered"

\* The directions written by format_tau: of the tau at its production and at
\* its end.
tau_dirs(product, end) ==
    {[k |-> "tau", dir |-> product.dir], [k |-> "tau_end", dir |-> end]}

\* The state of a daughter neutrino handed to the recursive call: zeroed, then
\* copy_neutrino, then the flux fields.  dir is the direction copy_neutrino
\* gives it: the backup of the call in longitudinal mode, else that of the
\* momentum of the decay product.
Daughter(pid, e, flux, r_low, dir) ==
    [pid |-> pid, energy |-> e, dir |-> dir,
     is_inside |-> IF flux = 1 THEN -1 ELSE 0,
     has_crossed |-> IF flux = 1 THEN 0 ELSE -1,
     cross_count |-> IF flux = 1 /\ r_low THEN 1 ELSE 0]

\* The tau found after an interaction: pumas_transport, then the decay and
\* its products, or the record of a tau that crossed the flux boundary.
forward_tau(m, product, u, fails, ch0, d) ==
    LET f == Head(m.t.stack)
        flux == m.ctx.flux_neutrino
        loop == decay_trials(fails)
        ch == IF loop.ok THEN ch0 ELSE <<>>
        m1 == IF u.decayed
              THEN [m EXCEPT !.t.alouette = [fails |-> fails,
                                             calls |-> loop.calls,
                                             ok |-> loop.ok]]
              ELSE m
    IN  IF u.decayed
        THEN LET logged == forward_products(ch, m.t.api.decay, u.medium)
                 end == pumas_direction(product.dir)
                 m2 == IF logged = <<>> THEN m1
                       ELSE [write_decay(dump_primary(m1), f.gen,
                                         product.pid, u, logged)
                             EXCEPT !.t.dirs = @ \cup tau_dirs(product, end)]
                 e == LastOf(ch, ENT_PID_NU_BAR_E, FALSE)
                 n == LastOf(ch, ENT_PID_NU_TAU, TRUE)
                 dir == IF m.t.longitudinal THEN f.direction ELSE "scattered"
             IN  [m2 EXCEPT
                    !.t.stack[1].gen = @ + 1,
                    !.t.stack[1].nu_e =
                        IF e = <<>> THEN <<>>
                        ELSE <<Daughter(e[1], d, flux, u.r_low, dir)>>,
                    !.t.stack[1].nu_t =
                        IF n = <<>> THEN <<>>
                        ELSE <<Daughter(n[1], d, flux, u.r_low, dir)>>,
                    !.t.stack[1].pc = "call_e"]
        ELSE IF u.has_crossed = 1
        THEN LET m2 == dump_primary(m1)
                 end == pumas_direction(product.dir)
             IN  SetPc([m2 EXCEPT !.t.out = @ \o
                            format_tau(NextId(m2.t.out), f.gen, product.pid, u),
                                  !.t.dirs = @ \cup tau_dirs(product, end)],
                       "end")
        ELSE SetPc(m1, "end")

\* if (g_state->cross_count == 2): the crossing that emits the flux record.
first_crossing(cross_count) == cross_count = 1

second_crossing(cross_count) == cross_count = 2

\* One turn of the loop of transport_forward, from ent_transport (outcome o,
\* with g the effect of the medium callback on the flux fields) to the next
\* call or return.
forward_body(m, o, g, u, n, ch, d) ==
    LET f == Head(m.t.stack)
        nu1 == [f.nu EXCEPT !.pid = o.pid, !.energy = o.energy,
                            !.is_inside = g.is_inside,
                            !.has_crossed = g.has_crossed,
                            !.dir = IF o.event = "EXIT" THEN @
                                    ELSE "scattered"]
        m1 == [m EXCEPT !.t.stack[1].nu = nu1,
                        !.t.stack[1].nu_e = <<>>, !.t.stack[1].nu_t = <<>>,
                        !.t.alouette = NoDecay]
    IN  IF nu1.energy <= 0 THEN SetPc(m1, "return")
        ELSE IF m.ctx.flux_neutrino # 0 /\ o.event = "EXIT"
                /\ nu1.has_crossed # 0
        THEN IF second_crossing(nu1.cross_count + 1)
             THEN LET m2 == dump_primary(
                        [m1 EXCEPT !.t.stack[1].nu.cross_count = @ + 1])
                  IN  SetPc([m2 EXCEPT !.t.out = Append(@,
                                format_neutrino(f.gen, nu1.pid)),
                                       !.t.dirs = @ \cup
                                {[k |-> "neutrino", dir |-> nu1.dir]}],
                            "return")
             ELSE [m1 EXCEPT !.t.stack[1].nu.cross_count = @ + 1,
                             !.t.stack[1].nu.is_inside = -1,
                             !.t.stack[1].nu.has_crossed = 0]
        ELSE IF o.event = "EXIT" THEN SetPc(m1, "return")
        ELSE LET swap == Abs(nu1.pid) = ENT_PID_TAU
                 dir == IF m.t.longitudinal THEN f.direction ELSE "scattered"
                 nu2 == IF swap
                        THEN [nu1 EXCEPT !.pid = o.product.pid,
                                         !.energy = o.product.energy,
                                         !.dir = dir]
                        ELSE [nu1 EXCEPT !.dir = dir]
                 product == IF swap
                            THEN [pid |-> nu1.pid, energy |-> nu1.energy,
                                  dir |-> dir]
                            ELSE [pid |-> o.product.pid,
                                  energy |-> o.product.energy, dir |-> dir]
                 m2 == [m1 EXCEPT !.t.stack[1].nu = nu2]
             IN  IF Abs(product.pid) = ENT_PID_TAU
                 THEN forward_tau(m2, product, u, n, ch, d)
                 ELSE SetPc(m2, "end")

\* What follows the return of the outermost call in the loop over the events
\* of danton_run: format_grammage in a grammage scan, then i++.
forward_event_end(m) ==
    IF m.t.stack # <<>> THEN m
    ELSE [m EXCEPT !.t.out = IF m.t.api.grammage
                             THEN Append(@, format_grammage) ELSE @,
                   !.t.i = @ + 1]

\* The energy of a daughter of the decay of a tau of energy e: a level lower.
daughter_energy_kept(e) == e

daughter_energy(e) == e - 1

\* The tau of an outcome of ent_transport, after the exchange, or NoProduct.
TauOf(o) ==
    IF o.event = "EXIT" \/ o.energy <= 0 THEN NoProduct
    ELSE IF Abs(o.pid) = ENT_PID_TAU THEN [pid |-> o.pid, energy |-> o.energy]
    ELSE IF Abs(o.product.pid) = ENT_PID_TAU THEN o.product
    ELSE NoProduct

\* The choices of the engines that follow an outcome of ent_transport: the
\* transport of the tau, its decay and the energy of its daughters (a level
\* lower than that of the tau), when there is a tau.  The failures n of the
\* decay engine that go with the products ch: none or all but one of the
\* trials, or all of them when there is no product.
TauChoices(o, taus) ==
    LET tau == TauOf(o)
    IN  IF tau = NoProduct
        THEN {[u |-> NoTau, ch |-> <<>>, d |-> 0, n |-> DecayTrials]}
        ELSE UNION {{[u |-> u, ch |-> ch, d |-> daughter_energy(tau.energy),
                      n |-> n] :
                        n \in IF ~u.decayed \/ ch = <<>> THEN {DecayTrials}
                              ELSE {0, DecayTrials - 1}} :
                    u \in taus, ch \in DecayChannels(tau.pid)}

\* A step of transport_forward.
transport_forward ==
    /\ t.prog = "forward"
    /\ t.stack # <<>>
    /\ LET nu == Head(t.stack).nu
       IN  \E o \in ent_transport(nu.pid, nu.energy, TRUE) :
           \E g \in medium_flux(nu, t.api.decay, o.event) :
           \E c \in TauChoices(o,
                        pumas_transport(ctx.flux_neutrino, t.api.decay)) :
             LET m == forward_event_end(forward_control(
                        forward_body([t |-> t, ctx |-> ctx], o, g,
                                     c.u, c.n, c.ch, c.d)))
             IN  /\ t' = m.t
                 /\ ctx' = m.ctx
    /\ UNCHANGED <<sampler, mutated, file, proc, call>>

\* The start of an event in the forward loop of danton_run: the state of the
\* primary, primary_dumped = 0, the call of transport_forward.
run_forward ==
    /\ t.prog = "forward"
    /\ t.stack = <<>>
    /\ t.i < t.events
    /\ LET state == [pid |-> t.projectile, energy |-> MaxEnergy,
                     dir |-> "primary", is_inside |-> -1,
                     has_crossed |-> IF t.api.decay THEN -1 ELSE 0,
                     cross_count |-> 0]
           m == forward_event_end(forward_control(
                    [t |-> [t EXCEPT !.stack = <<Frame(state, 1)>>,
                                     !.out = <<>>, !.alouette = NoDecay,
                                     !.dirs = {}],
                     ctx |-> [ctx EXCEPT !.primary_dumped = 0]]))
       IN  /\ t' = m.t
           /\ ctx' = m.ctx
    /\ UNCHANGED <<sampler, mutated, file, proc, call>>

(***************************************************************************)
(* A run of the library from the point where danton_run has passed its     *)
(* checks and written the header.                                          *)
(***************************************************************************)
\* A sampler after danton_sampler_update has succeeded.
UpdatedSampler(api) ==
    LET nw == SumWeights(api.weight, 1, DANTON_PARTICLE_N - 2)
    IN  [api |-> api, neutrino_weight |-> nw,
         total_weight |-> nw + WeightOf(api.weight[DANTON_PARTICLE_TAU_BAR])
                             + WeightOf(api.weight[DANTON_PARTICLE_TAU]),
         hash |-> hash(SamplerBytes(api))]

\* The samplers of the runs.  The particle given a weight is nu_e_bar, nu_tau
\* or tau; in a grammage scan, where the weights are not read, nu_tau.
RunSamplers(api) ==
    {UpdatedSampler([altitude |-> <<D_0, D_0p3>>, cos_theta |-> <<D_0, D_0p3>>,
                     elevation |-> <<D_0, D_0p3>>, energy |-> <<D_100, D_1E12>>,
                     weight |-> [i \in 1..DANTON_PARTICLE_N |->
                                    IF i = j THEN D_1 ELSE D_0]]) :
        j \in IF api.grammage THEN {6} ELSE {3, 6, 8}}

Transport(prog, api, events, projectile) ==
    [prog |-> prog, api |-> api, events |-> events, projectile |-> projectile,
     i |-> 0, stack |-> <<>>, out |-> <<>>,
     n_taus |-> 0, done |-> 0, records |-> 0, alouette |-> NoDecay,
     longitudinal |-> FALSE, dirs |-> {}]

InitRun(forward, longitudinal) ==
    /\ mutated = FALSE
    /\ ctx \in {[created |-> TRUE, flux_neutrino |-> fl, primary_dumped |-> 0] :
                    fl \in {0, 1}}
    /\ file = [exists |-> TRUE, lines |-> <<"header">>]
    /\ proc = "running"
    /\ call = NoCall
    /\ \E api \in {a \in ApiSet : a.sampler /\ a.forward = forward} :
         /\ sampler \in RunSamplers(api)
         /\ LET chk == run_check(api, MaxEvents, hash_differs(sampler))
            IN  /\ chk.rc = EXIT_SUCCESS
                /\ chk.flux_neutrino = ctx.flux_neutrino
                /\ t = [Transport(IF forward THEN "forward" ELSE "backward",
                                  api, chk.events, Projectile(api))
                        EXCEPT !.longitudinal = longitudinal]

\* The runs with context->api.longitudinal as danton_context_create sets it.
InitForward == InitRun(TRUE, FALSE)

NextForward == run_forward \/ transport_forward

SpecForward == InitForward /\ [][NextForward]_vars

\* The forward runs with the call of transport_forward going on until it
\* returns: nothing but the call runs between its entry and its return.
SpecForwardFair == SpecForward /\ WF_vars(transport_forward)

\* The forward runs with context->api.longitudinal set.
SpecLongitudinal == InitRun(TRUE, TRUE) /\ [][NextForward]_vars

(***************************************************************************)
(* The command-line program: transport and the loop over the events of     *)
(* main.  primary_dumped is a parameter of transport, passed by value: it  *)
(* is a field of the frame.  done counts the decays with a logged product, *)
(* n_taus is the value of --taus (0: no limit).                            *)
(***************************************************************************)
MaxTaus == 1

CliFrame(nu, gen, primary_dumped) ==
    [nu |-> nu, gen |-> gen, primary_dumped |-> primary_dumped,
     pc |-> "enter", nu_e |-> <<>>, nu_t |-> <<>>]

\* (n_taus > 0) && (*done >= n_taus)
taus_done(tt) == tt.n_taus > 0 /\ tt.done >= tt.n_taus

\* The calls and returns of transport between two calls of ent_transport.
RECURSIVE transport_control(_)
transport_control(m) ==
    IF m.t.stack = <<>> THEN m
    ELSE LET f == Head(m.t.stack)
         IN  CASE f.pc = "loop" -> m
               [] f.pc = "enter" ->
                    transport_control(SetPc(m,
                        IF Transportable(f.nu.pid) /\ ~taus_done(m.t)
                        THEN "loop" ELSE "return"))
               [] f.pc = "call_e" ->
                    transport_control(
                        IF f.nu_e = <<>> THEN SetPc(m, "call_t")
                        ELSE [m EXCEPT !.t.stack =
                                <<CliFrame(f.nu_e[1], f.gen, f.primary_dumped)>>
                                \o <<[f EXCEPT !.pc = "call_t"]>>
                                \o Tail(m.t.stack)])
               [] f.pc = "call_t" ->
                    transport_control(
                        IF f.nu_t = <<>> THEN SetPc(m, "end")
                        ELSE [m EXCEPT !.t.stack =
                                <<CliFrame(f.nu_t[1], f.gen, f.primary_dumped)>>
                                \o <<[f EXCEPT !.pc = "end"]>>
                                \o Tail(m.t.stack)])
               [] f.pc = "end" ->
                    transport_control(SetPc(m,
                        IF Transportable(f.nu.pid) THEN "loop" ELSE "return"))
               [] f.pc = "return" ->
                    transport_control([m EXCEPT !.t.stack = Tail(@)])

\* The test of the loop over the products in transport: a product is logged
\* unless it is a nu_tau, a nu_e_bar, a nu_e, a muon or a nu_mu.
cli_logged(pid) ==
    /\ Abs(pid) # ENT_PID_NU_TAU
    /\ pid # ENT_PID_NU_BAR_E
    /\ ~(pid = ENT_PID_NU_E \/ Abs(pid) = ENT_PID_MUON
            \/ Abs(pid) = ENT_PID_NU_MU)

\* medium(tau->position, ..., &medium_index, ...); if (medium_index < 10)
\* continue;
RECURSIVE cli_products(_, _)
cli_products(ch, medium_index) ==
    IF ch = <<>> THEN <<>>
    ELSE (IF cli_logged(Head(ch)) /\ in_air(medium_index)
          THEN <<Head(ch)>> ELSE <<>>)
         \o cli_products(Tail(ch), medium_index)

\* The line of the primary in the program.
format_ancester(eventid) == [k |-> "ancestor", ev |-> eventid]

\* if (!primary_dumped) { format_ancester; primary_dumped = 1; } on the
\* parameter of the call.
cli_dump_primary(m) ==
    IF Head(m.t.stack).primary_dumped = 0
    THEN [m EXCEPT !.t.out = Append(@, format_ancester(m.t.i)),
                   !.t.stack[1].primary_dumped = 1]
    ELSE m

\* The nu_tau products of a decay in their order: the first is copied onto
\* the neutrino of the call when that is the hadron left by the exchange, any
\* other goes to nu_t.
RECURSIVE NuTaus(_)
NuTaus(ch) ==
    IF ch = <<>> THEN <<>>
    ELSE (IF Abs(Head(ch)) = ENT_PID_NU_TAU THEN <<Head(ch)>> ELSE <<>>)
         \o NuTaus(Tail(ch))

\* pumas_transport in the program: the tau decays or not; medium_index is what
\* medium() gives at the point where it stopped.
cli_pumas_transport ==
    [decayed : BOOLEAN, medium : {-1, 9, 10}, r_low : {FALSE}, has_crossed : {0}]

cli_tau(m, product, u, ch, d) ==
    LET f == Head(m.t.stack)
        m1 == m
    IN  IF u.decayed
        THEN LET logged == cli_products(ch, u.medium)
                 m2 == IF logged = <<>> THEN m1
                       ELSE write_decay(cli_dump_primary(m1), f.gen,
                                        product.pid, u, logged)
                 e == LastOf(ch, ENT_PID_NU_BAR_E, FALSE)
                 ns == NuTaus(ch)
                 onto == f.nu.pid = ENT_PID_HADRON /\ ns # <<>>
                 rest == IF onto THEN Tail(ns) ELSE ns
                 m3 == [m2 EXCEPT
                          !.t.done = IF logged # <<>> THEN @ + 1 ELSE @,
                          !.t.records = IF logged # <<>> THEN @ + 1 ELSE @,
                          !.t.stack[1].nu =
                                IF onto THEN [pid |-> ns[1], energy |-> d]
                                ELSE @]
             IN  IF taus_done(m3.t) THEN SetPc(m3, "return")
                 ELSE [m3 EXCEPT
                        !.t.stack[1].gen = @ + 1,
                        !.t.stack[1].nu_e =
                            IF e = <<>> THEN <<>>
                            ELSE <<[pid |-> e[1], energy |-> d]>>,
                        !.t.stack[1].nu_t =
                            IF rest = <<>> THEN <<>>
                            ELSE <<[pid |-> rest[Len(rest)], energy |-> d]>>,
                        !.t.stack[1].pc = "call_e"]
        ELSE SetPc(m1, "end")

\* One turn of the loop of transport.
transport_body(m, o, u, ch, d) ==
    LET f == Head(m.t.stack)
        nu1 == [pid |-> o.pid, energy |-> o.energy]
        m1 == [m EXCEPT !.t.stack[1].nu = nu1,
                        !.t.stack[1].nu_e = <<>>, !.t.stack[1].nu_t = <<>>]
    IN  IF o.event = "EXIT" \/ nu1.energy <= 0 THEN SetPc(m1, "return")
        ELSE LET swap == Abs(nu1.pid) = ENT_PID_TAU
                 nu2 == IF swap THEN o.product ELSE nu1
                 product == IF swap THEN nu1 ELSE o.product
                 m2 == [m1 EXCEPT !.t.stack[1].nu = nu2]
             IN  IF Abs(product.pid) = ENT_PID_TAU
                 THEN cli_tau(m2, product, u, ch, d)
                 ELSE SetPc(m2, "end")

\* What follows the return of transport in the loop of main: the loop ends
\* when the requested number of decays is reached; else format_grammage in a
\* grammage scan, then i++.
main_event_end(m) ==
    IF m.t.stack # <<>> THEN m
    ELSE IF taus_done(m.t) THEN [m EXCEPT !.t.i = m.t.events]
    ELSE [m EXCEPT !.t.out = IF ~m.t.api.do_interaction
                             THEN Append(@, format_grammage) ELSE @,
                   !.t.i = @ + 1]

\* A step of transport.
transport ==
    /\ t.prog = "cli"
    /\ t.stack # <<>>
    /\ LET nu == Head(t.stack).nu
       IN  \E o \in ent_transport(nu.pid, nu.energy, t.api.do_interaction) :
           \E c \in TauChoices(o, cli_pumas_transport) :
             LET m == main_event_end(transport_control(
                        transport_body([t |-> t, ctx |-> ctx], o,
                                       c.u, c.ch, c.d)))
             IN  t' = m.t
    /\ UNCHANGED <<sampler, mutated, ctx, file, proc, call>>

\* The start of an event in the loop of main.
main ==
    /\ t.prog = "cli"
    /\ t.stack = <<>>
    /\ t.i < t.events
    /\ LET state == [pid |-> t.projectile, energy |-> MaxEnergy]
           m == main_event_end(transport_control(
                    [t |-> [t EXCEPT !.stack = <<CliFrame(state, 1, 0)>>,
                                     !.out = <<>>],
                     ctx |-> ctx]))
       IN  t' = m.t
    /\ UNCHANGED <<sampler, mutated, ctx, file, proc, call>>

\* The program after its options are checked and the header is written:
\* with or without --grammage, the projectile one of -12, 16, -16 (nu_tau in a
\* grammage scan), --taus 0..MaxTaus.
InitCli ==
    /\ sampler = danton_sampler_create
    /\ mutated = FALSE
    /\ ctx = NoContext
    /\ file = [exists |-> TRUE, lines |-> <<"header">>]
    /\ proc = "running"
    /\ call = NoCall
    /\ \E do_interaction \in BOOLEAN, n_taus \in 0..MaxTaus :
       \E projectile \in IF do_interaction
                         THEN {ENT_PID_NU_TAU, -ENT_PID_NU_TAU,
                               ENT_PID_NU_BAR_E}
                         ELSE {ENT_PID_NU_TAU} :
         t = [Transport("cli", [do_interaction |-> do_interaction],
                        MaxEvents, projectile)
              EXCEPT !.n_taus = n_taus]

NextCli == main \/ transport

SpecCli == InitCli /\ [][NextCli]_vars

(***************************************************************************)
(* transport_backward of the library.  Its recursive call is followed by a *)
(* return: the stack holds one frame, the current call, with the state it  *)
(* transports (a tau when is_tau, else a neutrino), its generation, the    *)
(* copy final of the state the event began with, and pc: at the backward   *)
(* transport of the tau, or at ent_transport in the loop of the neutrino.  *)
(* In a backward run the energies rise up to the cut, level MaxEnergy.     *)
(* final and production are what the out-parameters final and              *)
(* tau_at_production point to, each with the generation of the call that   *)
(* wrote it; context tells whether the context field of the state in       *)
(* transport is set, tau_context whether that of the state behind the      *)
(* pointer tau is (current, or the local g_state, which is not             *)
(* initialised).                                                           *)
(***************************************************************************)
\* if (generation == 1) memcpy(out, current, sizeof(*out));
backup_always(generation, out, current) == current

backup(generation, out, current) == IF generation = 1 THEN current ELSE out

\* What tau_at_production points to before any call has written it: NULL, or
\* a local of danton_run that is not initialised.
NoProduction(null) ==
    [set |-> IF null THEN "null" ELSE "unset", pid |-> 0, gen |-> 0]

BackFrame(is_tau, pid, e, gen, final, production, context) ==
    [is_tau |-> is_tau, pid |-> pid, energy |-> e, gen |-> gen,
     final |-> backup(gen, final,
                      [is_tau |-> is_tau, pid |-> pid, gen |-> gen]),
     production |-> production, context |-> context,
     tau_context |-> is_tau /\ context,
     pc |-> IF is_tau THEN "tau" ELSE "nu"]

\* The test of the loop over the products in transport_backward, as it is
\* written: abs(pid1 == 12) || abs(pid1) == 13 || abs(pid1) == 14 ||
\* abs(pid1) == 16 skips the product.
backward_logged(pid) ==
    ~(\/ Abs(IF pid = ENT_PID_NU_E THEN 1 ELSE 0) # 0
      \/ Abs(pid) = ENT_PID_MUON
      \/ Abs(pid) = ENT_PID_NU_MU
      \/ Abs(pid) = ENT_PID_NU_TAU)

RECURSIVE backward_products(_)
backward_products(ch) ==
    IF ch = <<>> THEN <<>>
    ELSE (IF backward_logged(Head(ch)) THEN <<Head(ch)>> ELSE <<>>)
         \o backward_products(Tail(ch))

\* (final->base.pumas.charge < 0.) ? ENT_PID_TAU : ENT_PID_TAU_BAR.  When
\* final is the state of a neutrino the charge is read from the bytes of an
\* ent_state: either sign.
FinalTau(final) ==
    IF final.is_tau THEN {final.pid} ELSE {ENT_PID_TAU, -ENT_PID_TAU}

\* The backward transport of the tau and the generation of its production
\* vertex (lines 911-1026): the call returns (the tau stopped short, reached
\* the cut, lost its weight, or has no medium), or goes on with the state of
\* the vertex, whose flavour ent_vertex has drawn, at an energy not lower.
backward_tau(f) ==
    {<<>>} \cup
    {<<[f EXCEPT !.is_tau = FALSE, !.pid = p, !.energy = e, !.pc = "nu",
                 !.production = backup(f.gen, @,
                    [set |-> "tau", pid |-> f.pid, gen |-> f.gen]),
                 !.context = TRUE]>> :
        p \in {IF f.pid > 0 THEN ENT_PID_NU_TAU ELSE -ENT_PID_NU_TAU,
               ENT_PID_NU_BAR_E},
        e \in f.energy..MaxEnergy}

\* pid0, the flavour the primary must have: that of the neutrino of a final
\* tau, by its charge, or the flavour of the final neutrino.
backward_pid0_unsigned(final) ==
    IF final.is_tau THEN ENT_PID_NU_TAU ELSE final.pid

backward_pid0(final) ==
    IF final.is_tau
    THEN (IF final.pid > 0 THEN ENT_PID_NU_TAU ELSE -ENT_PID_NU_TAU)
    ELSE final.pid

\* The end of a valid event (lines 1104-1166), the neutrino having left the
\* geometry: nothing when its flavour is not that of the final state; in flux
\* mode the ancestor and the final neutrino or tau; in decay mode the decay of
\* the final tau, with the ancestor and the tau pair at the first product
\* that is logged.  tau_at_production is NULL when danton_run began the event
\* with a neutrino: format_tau then reads through a null pointer, and the
\* process is killed or goes on.
backward_end(m, eventid, f, tp, ch, killed) ==
    LET pid0 == backward_pid0(f.final)
        anc == [m EXCEPT !.t.out = Append(@, format_ancestor(eventid, f.pid))]
        null == m.ctx.flux_neutrino # 0
    IN  IF f.pid # pid0 THEN m
        ELSE IF ~m.t.api.decay
        THEN IF m.ctx.flux_neutrino # 0
             THEN [anc EXCEPT !.t.out = Append(@,
                        format_neutrino(f.gen, f.final.pid))]
             ELSE [anc EXCEPT !.t.out = @ \o
                        format_tau(NextId(anc.t.out), f.gen, tp,
                                   [decayed |-> FALSE, medium |-> -1])]
        ELSE LET logged == backward_products(ch)
             IN  IF logged = <<>> THEN m
                 ELSE IF null /\ killed THEN [anc EXCEPT !.killed = TRUE]
                 ELSE write_decay(anc, f.gen, tp,
                                  [decayed |-> TRUE, medium |-> -1], logged)

\* ent_transport of a neutrino in a backward run: its weight drops to zero,
\* it leaves the geometry, it interacts (its energy before was higher), or it
\* is the daughter of a tau decay, which alouette_undecay then draws: a tau
\* of either charge, of a higher energy, or a failure.
backward_transport(f) ==
    {[event |-> "EXIT", weight |-> w, energy |-> f.energy, tau |-> 0] :
        w \in {0, 1}}
    \cup {[event |-> "INTERACTION", weight |-> 1, energy |-> e, tau |-> 0] :
            e \in (f.energy + 1)..MaxEnergy}
    \cup {[event |-> "DECAY_TAU", weight |-> 1, energy |-> e, tau |-> p] :
            e \in (f.energy + 1)..MaxEnergy,
            p \in {0, ENT_PID_TAU, -ENT_PID_TAU}}

\* A step of transport_backward.  pumas_transport on a tau state whose
\* context field was never written reads through it in the medium callback:
\* the process is killed, or the call goes on.
transport_backward ==
    /\ t.prog = "backward"
    /\ t.stack # <<>>
    /\ proc = "running"
    /\ LET f == Head(t.stack)
           m0 == [t |-> [t EXCEPT !.stack = <<>>, !.i = @ + 1], ctx |-> ctx,
                  killed |-> FALSE]
           go(stack) == IF stack = <<>> \/ stack[1].energy >= MaxEnergy
                        THEN m0 ELSE [m0 EXCEPT !.t = [t EXCEPT !.stack = stack]]
       IN  \E m \in
             IF f.pc = "tau"
             THEN {go(s) : s \in backward_tau(f)}
                  \cup (IF f.context THEN {}
                        ELSE {[m0 EXCEPT !.killed = TRUE]})
             ELSE UNION {
                CASE o.weight <= 0 -> {m0}
                  [] o.weight > 0 /\ o.event = "EXIT" ->
                        UNION {{backward_end(m0, t.i, f, tp, ch, k) :
                                    ch \in DecayChannels(tp), k \in BOOLEAN} :
                               tp \in FinalTau(f.final)}
                  [] o.weight > 0 /\ o.event = "DECAY_TAU" ->
                        {IF o.tau = 0 \/ o.energy >= MaxEnergy THEN m0
                         ELSE go(<<BackFrame(TRUE, o.tau, o.energy,
                                             f.gen + 1, f.final,
                                             f.production, f.tau_context)>>)}
                  [] OTHER ->
                        {go(<<[f EXCEPT !.energy = o.energy]>>)}
                : o \in backward_transport(f)} :
             /\ t' = m.t
             /\ proc' = IF m.killed THEN "killed" ELSE proc
    /\ UNCHANGED <<sampler, mutated, ctx, file, call>>

\* The start of an event in the backward loop of danton_run: in a grammage
\* scan the whole event (ent_transport with no physics up to the exit, then
\* format_grammage); else the state of a tau, or of a neutrino when
\* flux_neutrino is set, primary_dumped = 0, the call of transport_backward.
run_backward ==
    /\ t.prog = "backward"
    /\ t.stack = <<>>
    /\ t.i < t.events
    /\ proc = "running"
    /\ ctx' = [ctx EXCEPT !.primary_dumped =
                    IF t.api.grammage THEN @ ELSE 0]
    /\ IF t.api.grammage
       THEN t' = [t EXCEPT !.out = <<format_grammage>>, !.i = @ + 1]
       ELSE LET is_tau == ctx.flux_neutrino = 0
                pid == IF is_tau
                       THEN (IF t.projectile > 0 THEN ENT_PID_TAU
                             ELSE -ENT_PID_TAU)
                       ELSE t.projectile
                final == [is_tau |-> FALSE, pid |-> 0, gen |-> 0]
            IN  t' = [t EXCEPT !.out = <<>>,
                        !.stack = <<BackFrame(is_tau, pid, 0, 1, final,
                                        NoProduction(~is_tau), TRUE)>>]
    /\ UNCHANGED <<sampler, mutated, file, proc, call>>

InitBackward == InitRun(FALSE, FALSE)

NextBackward == run_backward \/ transport_backward

SpecBackward == InitBackward /\ [][NextBackward]_vars

(***************************************************************************)
(* The runs of the library, forward and backward, and the forward          *)
(* transports of the library and of the program.                           *)
(***************************************************************************)
SpecLibrary ==
    (InitForward \/ InitBackward) /\ [][NextForward \/ NextBackward]_vars

SpecForwards ==
    (InitForward \/ InitCli) /\ [][NextForward \/ NextCli]_vars

(***************************************************************************)
(* The geometry callback medium() of the library and its two wrappers.     *)
(* A double is a record: nan, or a length of m metres and mm millimetres;  *)
(* a comparison with a NaN is false.  Positions and directions lie on one  *)
(* axis through the centre of the Earth (position (0, 0, r), direction     *)
(* (0, 0, u), u = 1 outgoing, u = -1 downgoing), where b = r u and the     *)
(* root of b^2 + ri^2 - r^2 is ri.                                         *)
(***************************************************************************)
EARTH_RADIUS == 6371000
GEO_ORBIT == 42164000

F(m) == [nan |-> FALSE, m |-> m, mm |-> 0]
FNaN == [nan |-> TRUE, m |-> 0, mm |-> 0]
\* The literal 1E-03.
F1Em3 == [nan |-> FALSE, m |-> 0, mm |-> 1]

FLt(a, b) ==
    ~a.nan /\ ~b.nan /\ (a.m < b.m \/ (a.m = b.m /\ a.mm < b.mm))
FLe(a, b) ==
    ~a.nan /\ ~b.nan /\ (a.m < b.m \/ (a.m = b.m /\ a.mm <= b.mm))
FGt(a, b) == FLt(b, a)
\* a - b for whole numbers of metres.
FSub(a, b) == IF a.nan \/ b.nan THEN FNaN ELSE F(a.m - b.m)

\* const double ri[16], in metres.
ri ==
    <<1221500, 3480000, 5701000, 5771000, 5971000, 6151000, 6346600, 6356000,
      6368000, EARTH_RADIUS, EARTH_RADIUS + 4000, EARTH_RADIUS + 10000,
      EARTH_RADIUS + 40000, EARTH_RADIUS + 100000, GEO_ORBIT, 2 * GEO_ORBIT>>

\* The step of the loop of medium() for the shell i (from 0): the outgoing
\* intersection, the intersection with the lower radius for a downgoing
\* trajectory, the floor.
shell_step(i, r, direction) ==
    LET b == IF r.nan \/ direction.nan THEN FNaN ELSE F(r.m * direction.m)
        d == IF b.nan THEN FNaN ELSE F(ri[i + 1])
        out == FSub(d, b)
        s == FSub(FSub(F(0), b), F(IF i > 0 THEN ri[i] ELSE 0))
        step == IF i > 0 /\ FLt(b, F(0)) /\ FGt(s, F(0)) /\ FLt(s, out)
                THEN s ELSE out
    IN  IF FLt(step, F1Em3) THEN F1Em3 ELSE step

\* The test of the flux boundary on a state already classified: the radius
\* is at or beyond rf for a state inside, at or below rf for a state outside.
flux_outgoing(is_inside, r, rf) == is_inside # 0 /\ FLe(rf, r)

flux_crossing(is_inside, r, rf) ==
    \/ (is_inside # 0 /\ FLe(rf, r))
    \/ (is_inside = 0 /\ FLe(r, rf))

\* medium(position, direction, state): the state and the step it returns.
\* decay is context->api.decay, zi is sampler->altitude[0]; Shells are the
\* shells of for (i = 0; i < sizeof(ri) / sizeof(*ri) - 1; i++) that pass
\* if (r <= ri[i]).
medium(r, direction, state, decay, zi) ==
    LET s0 == [state EXCEPT !.medium = -1]
        Shells == {i \in 0..(Len(ri) - 2) : FLe(r, F(ri[i + 1]))}
        none(s) == [state |-> s, step |-> F(0)]
    IN  IF FGt(r, F(GEO_ORBIT)) THEN none(s0)
        ELSE
        LET s1 == [s0 EXCEPT !.r = r]
            rf == F(EARTH_RADIUS + zi)
            armed == ~decay /\ s1.has_crossed >= 0
            crossed == /\ armed
                       /\ s1.is_inside >= 0
                       /\ flux_crossing(s1.is_inside, r, rf)
            s2 == IF armed /\ s1.is_inside < 0
                  THEN [s1 EXCEPT !.is_inside = IF FLt(r, rf) THEN 1 ELSE 0]
                  ELSE s1
        IN  IF crossed THEN none([s1 EXCEPT !.has_crossed = 1])
            ELSE IF ~s2.is_tau /\ FGt(s2.r, F(ri[14])) THEN none(s2)
            ELSE IF Shells = {} THEN none(s2)
            ELSE LET i == CHOOSE j \in Shells : \A k \in Shells : j <= k
                 IN  [state |-> [s2 EXCEPT !.medium = i],
                      step |-> shell_step(i, r, direction)]

\* The positions and directions of the calls: the centre, each radius of the
\* table, the point a metre above the ground and above each of the three
\* outermost radii, a NaN; outgoing, downgoing, a NaN.
\* A call of the callback through a wrapper, which reverses the direction
\* when reversed is set.
Callback(reversed) ==
    \E r \in {F(0), FNaN} \cup {F(ri[j]) : j \in DOMAIN ri}
                          \cup {F(ri[j] + 1) : j \in {10, 14, 15, 16}},
       u \in {F(1), F(-1), FNaN} :
        LET direction == IF reversed THEN FSub(F(0), u) ELSE u
            res == medium(r, direction, t.state, t.decay, t.zi)
        IN  t' = [t EXCEPT !.state = res.state, !.step = res.step,
                           !.position = r, !.called = TRUE]

\* medium_ent: the callback of ENT, on the state of a neutrino; the direction
\* is reversed when context->ancestor is set (a backward run).
medium_ent ==
    /\ t.prog = "medium"
    /\ ~t.state.is_tau
    /\ Callback(~t.forward)
    /\ UNCHANGED <<sampler, mutated, ctx, file, proc, call>>

\* medium_pumas: the callback of PUMAS, on the state of a tau; the direction
\* is reversed when context->forward is not set.
medium_pumas ==
    /\ t.prog = "medium"
    /\ t.state.is_tau
    /\ Callback(~t.forward)
    /\ UNCHANGED <<sampler, mutated, ctx, file, proc, call>>

\* A struct generic_state handed to an engine as danton_run and
\* transport_forward set it up: of a neutrino or of a tau, with the flux
\* boundary armed (has_crossed = 0) or not (-1), in a run with or without the
\* decay flag, forward or backward, altitude[0] at the ground or above.
InitMedium ==
    /\ sampler = danton_sampler_create
    /\ mutated = FALSE
    /\ ctx = NoContext
    /\ file = [exists |-> FALSE, lines |-> <<>>]
    /\ proc = "running"
    /\ call = NoCall
    /\ \E is_tau \in BOOLEAN, has_crossed \in {-1, 0}, decay \in BOOLEAN,
          forward \in BOOLEAN, zi \in {0, 4000}, cross_count \in {0, 1} :
         t = [prog |-> "medium",
              state |-> [medium |-> -1, r |-> F(0), is_tau |-> is_tau,
                         is_inside |-> -1, has_crossed |-> has_crossed,
                         cross_count |-> cross_count],
              decay |-> decay, forward |-> forward, zi |-> zi,
              position |-> F(0), step |-> F(0), called |-> FALSE]

SpecMedium == InitMedium /\ [][medium_ent \/ medium_pumas]_vars

(***************************************************************************)
(* The start of the command-line program: the options as getopt_long and   *)
(* the str* functions leave them, their checks, the output stream and the  *)
(* header, then the loop over the events, whose records reach the output   *)
(* file through output_open.  The cosines are in hundredths, the energies  *)
(* in GeV.  argv holds the positional arguments as sscanf reads them: n is *)
(* what sscanf returns, d the integer read.  The lines of the output file  *)
(* are records.                                                            *)
(***************************************************************************)
DefaultEvents == 10000
DefaultBins == 1001

\* A positional argument that holds the integer d.
Arg(d) == [n |-> 1, d |-> d]

\* The options of a run.  CosThetas are the values of cos_theta_min and
\* cos_theta_max: the defaults, one of them outside [0, 1], the two swapped;
\* Energies those of energy_cut, energy_min and energy_max; Arguments the
\* positional arguments: none, one with no integer, a PID, two PIDs.
Options ==
    LET CosThetas == {<<15, 25>>, <<-1, 25>>, <<101, 25>>, <<25, 15>>,
                      <<15, 101>>}
        Energies == {<<1000, 1000, 2000>>, <<99, 1000, 2000>>,
                     <<1000, 99, 2000>>, <<1000, 1000, 1000>>}
        Arguments == {<<>>, <<[n |-> 0, d |-> 0]>>, <<Arg(ENT_PID_NU_E)>>,
                      <<Arg(ENT_PID_NU_BAR_E)>>, <<Arg(ENT_PID_NU_TAU)>>,
                      <<Arg(-ENT_PID_NU_TAU)>>,
                      <<Arg(ENT_PID_NU_TAU), Arg(ENT_PID_NU_TAU)>>}
    IN
    {[use_append |-> a, do_interaction |-> d, theta_interval |-> ti,
      energy_spectrum |-> es, cos_theta_min |-> c[1], cos_theta_max |-> c[2],
      energy_cut |-> e[1], energy_min |-> e[2], energy_max |-> e[3],
      n_events |-> n, argv |-> v, output_file |-> o] :
        a \in BOOLEAN, d \in BOOLEAN, ti \in BOOLEAN, es \in BOOLEAN,
        c \in CosThetas, e \in Energies, n \in 0..MaxEvents, v \in Arguments,
        o \in {"NULL", "path"}}

\* The options of the runs that write to one output file, or to one that
\* cannot be opened: the default ranges, -n 1..MaxEvents, a valid PID.
AppendOptions ==
    {[use_append |-> a, do_interaction |-> d, theta_interval |-> TRUE,
      energy_spectrum |-> TRUE, cos_theta_min |-> 15, cos_theta_max |-> 25,
      energy_cut |-> 1000, energy_min |-> 1000, energy_max |-> 2000,
      n_events |-> n, argv |-> <<Arg(ENT_PID_NU_TAU)>>, output_file |-> o] :
        a \in BOOLEAN, d \in BOOLEAN, n \in 1..MaxEvents,
        o \in {"path", "unwritable"}}

\* if (n_events < 1) n_events = ...; if (!do_interaction && !theta_interval)
\* n_events = 1;
events_default(o) ==
    IF ~o.do_interaction /\ ~o.theta_interval THEN 1
    ELSE IF o.n_events < 1
    THEN (IF o.do_interaction THEN DefaultEvents ELSE DefaultBins)
    ELSE o.n_events

bins_unchecked(o) == FALSE

\* if (!do_interaction && theta_interval && n_events < 2)
bins_check(o) ==
    ~o.do_interaction /\ o.theta_interval /\ events_default(o) < 2

Stop(err) == [rc |-> EXIT_FAILURE, err |-> err, events |-> 0, projectile |-> 0]

\* "Check the consistency of the options" and "Set the primary": the
\* diagnostic of the first check that fails, or the number of events and the
\* projectile.
check_options(o) ==
    IF \/ o.cos_theta_min < 0 \/ o.cos_theta_min > 100
       \/ /\ o.theta_interval
          /\ \/ o.cos_theta_min >= o.cos_theta_max
             \/ o.cos_theta_max > 100 \/ o.cos_theta_max < 0
    THEN Stop("inconsistent cos(theta) value(s)")
    ELSE IF bins_check(o) THEN Stop("numbers of bins must be 2 or more")
    ELSE IF o.energy_cut < 100 \/ o.energy_min < 100
    THEN Stop("energies must be at least 100 GeV")
    ELSE IF o.energy_spectrum /\ o.energy_max <= o.energy_min
    THEN Stop("inconsistent energy range")
    ELSE IF ~o.do_interaction
    THEN [rc |-> EXIT_SUCCESS, err |-> "", events |-> events_default(o),
          projectile |-> ENT_PID_NU_TAU]
    ELSE IF Len(o.argv) # 1 THEN Stop("wrong number of arguments")
    ELSE IF o.argv[1].n # 1 THEN Stop("Usage: danton [OPTION]... [PID]")
    ELSE IF o.argv[1].d \notin {ENT_PID_NU_TAU, -ENT_PID_NU_TAU,
                                ENT_PID_NU_BAR_E}
    THEN Stop("invalid neutrino PID")
    ELSE [rc |-> EXIT_SUCCESS, err |-> "", events |-> events_default(o),
          projectile |-> o.argv[1].d]

\* fopen on the output file f: NULL when the path cannot be opened for
\* writing; else the file is created when absent, and emptied by "w+".
fopen(f, output, mode) ==
    IF output = "unwritable" THEN [stream |-> "NULL", file |-> f]
    ELSE [stream |-> "file",
          file |-> [exists |-> TRUE,
                    lines |-> IF mode = "a" THEN f.lines ELSE <<>>]]

\* "Configure the output stream" of main.
main_stream(f, o) ==
    IF o.output_file = "NULL"
    THEN [stream |-> "stdout", file |-> f, print_header |-> ~o.use_append]
    ELSE IF o.use_append
    THEN LET a == fopen(f, o.output_file, "a")
             w == fopen(f, o.output_file, "w+")
         IN  IF a.stream # "NULL"
             THEN [stream |-> a.stream, file |-> a.file,
                   print_header |-> FALSE]
             ELSE [stream |-> w.stream, file |-> w.file,
                   print_header |-> TRUE]
    ELSE LET w == fopen(f, o.output_file, "w+")
         IN  [stream |-> w.stream, file |-> w.file, print_header |-> TRUE]

output_open_truncate(f, output) ==
    IF output = "NULL" THEN [stream |-> "stdout", file |-> f]
    ELSE fopen(f, output, "w+")

\* output_open: stdout, or the output file opened in append mode.
output_open(f, output) ==
    IF output = "NULL" THEN [stream |-> "stdout", file |-> f]
    ELSE fopen(f, output, "a")

\* The number of times the program is run on the output file.
MaxRuns == 2

\* A process of the program entering main: before is the output file as the
\* process finds it, wrote the records of its events so far, first those of
\* the first process.
Process(o, run, first) ==
    [prog |-> "main", pc |-> "start", opts |-> o, run |-> run,
     events |-> 0, i |-> 0, projectile |-> 0, before |-> file,
     wrote |-> <<>>, first |-> first]

\* main up to the loop over the events.
main_start ==
    /\ t.prog = "main"
    /\ t.pc = "start"
    /\ LET chk == check_options(t.opts)
           s == main_stream(file, t.opts)
       IN  IF chk.rc = EXIT_FAILURE
           THEN /\ proc' = "exited"
                /\ call' = [NoCall EXCEPT !.fn = "main", !.rc = EXIT_FAILURE,
                                          !.err = chk.err]
                /\ t' = [t EXCEPT !.pc = "exited"]
                /\ UNCHANGED file
           ELSE IF s.stream = "NULL"
           THEN /\ proc' = "exited"
                /\ call' = [NoCall EXCEPT !.fn = "main", !.rc = EXIT_FAILURE,
                                !.err = "could not open the output file"]
                /\ t' = [t EXCEPT !.pc = "exited"]
                /\ file' = s.file
           ELSE /\ file' = IF s.print_header
                           THEN output_write(s.file, s.stream, <<[k |-> "header"]>>)
                           ELSE s.file
                /\ t' = [t EXCEPT !.pc = "loop", !.events = chk.events,
                                  !.projectile = chk.projectile]
                /\ UNCHANGED <<proc, call>>
    /\ UNCHANGED <<sampler, mutated, ctx>>

\* An event of the loop of main, with the records it writes: a grammage
\* line in a grammage scan, else the lines of its decays, which may be none
\* (run and i tell the events apart).  The format_* functions write them:
\* output_open, fprintf, output_close.
main_loop ==
    /\ t.prog = "main"
    /\ t.pc = "loop"
    /\ t.i < t.events
    /\ \E recs \in
            IF ~t.opts.do_interaction
            THEN {<<[k |-> "grammage", run |-> t.run, i |-> t.i]>>}
            ELSE {<<>>, <<[k |-> "decay", run |-> t.run, i |-> t.i]>>} :
         /\ file' = IF recs = <<>> THEN file
                    ELSE LET s == output_open(file, t.opts.output_file)
                         IN  output_write(s.file, s.stream, recs)
         /\ t' = [t EXCEPT !.i = @ + 1, !.wrote = @ \o recs,
                           !.first = IF t.run = 1 THEN @ \o recs ELSE @]
    /\ UNCHANGED <<sampler, mutated, ctx, proc, call>>

\* gracefully_exit(EXIT_SUCCESS) after the loop.
gracefully_exit ==
    /\ t.prog = "main"
    /\ t.pc = "loop"
    /\ t.i = t.events
    /\ proc' = "exited"
    /\ call' = [NoCall EXCEPT !.fn = "main", !.rc = EXIT_SUCCESS]
    /\ t' = [t EXCEPT !.pc = "exited"]
    /\ UNCHANGED <<sampler, mutated, ctx, file>>

\* The program is run again, on the same output file.
execve ==
    /\ t.prog = "main"
    /\ t.pc = "exited"
    /\ t.run < MaxRuns
    /\ \E o \in AppendOptions :
         /\ o.output_file = t.opts.output_file
         /\ t' = Process(o, t.run + 1, t.first)
    /\ proc' = "running"
    /\ call' = NoCall
    /\ UNCHANGED <<sampler, mutated, ctx, file>>

\* The file system before the program is run: no output file, or one with
\* lines in it.
InitMain(opts) ==
    /\ sampler = danton_sampler_create
    /\ mutated = FALSE
    /\ ctx = NoContext
    /\ file \in {[exists |-> FALSE, lines |-> <<>>],
                 [exists |-> TRUE, lines |-> <<[k |-> "old"]>>]}
    /\ proc = "running"
    /\ call = NoCall
    /\ \E o \in opts : t = Process(o, 1, <<>>)

\* One run of the program on any of the options, up to its loop.
SpecOptions == InitMain(Options) /\ [][main_start]_vars

\* Runs of the program one after the other on one output file.
SpecAppend ==
    /\ InitMain(AppendOptions)
    /\ [][main_start \/ main_loop \/ gracefully_exit \/ execve]_vars

(***************************************************************************)
(* The Mersenne Twister of the library.  An unsigned long is a function    *)
(* from the 64 bit positions to 0 or 1, bit 0 the lowest; a constant is    *)
(* written as its hexadecimal digits; in the state of the model it is kept *)
(* as its four numbers of 16 bits, the lowest first.  t.pc is the position in the two     *)
(* functions: in the loop of random_initialise at its turn t.j, between    *)
(* two calls of random_uniform01, or in the loops of its update at the     *)
(* turn t.kk.  t.used holds the indices read since the last update.        *)
(***************************************************************************)
MT_PERIOD == 624
M == 397

\* The unsigned long written with the hexadecimal digits h.
Hex(h) ==
    [i \in 0..63 |-> IF i < 4 * Len(h)
                     THEN (h[Len(h) - (i \div 4)] \div (2 ^ (i % 4))) % 2
                     ELSE 0]

\* a ^ b, a & b, a >> n and, for a negative n, a << -n.
Xor(a, b) == [i \in 0..63 |-> (a[i] + b[i]) % 2]
And(a, b) == [i \in 0..63 |-> a[i] * b[i]]
ShR(a, n) == [i \in 0..63 |-> IF i + n \in 0..63 THEN a[i + n] ELSE 0]

\* The number held by the n bits of a from bit lo.
RECURSIVE Limb(_, _, _)
Limb(a, lo, n) == IF n = 0 THEN 0 ELSE a[lo] + 2 * Limb(a, lo + 1, n - 1)

\* Byte k of c * a + j with the carry above it, j below 2^16: the carry of
\* the byte below and, from i on, the products of byte i of a and byte
\* k - i of c.
RECURSIVE Column(_, _, _, _, _)
Column(c, a, j, k, i) ==
    IF i > k THEN (IF k = 0 THEN j ELSE Column(c, a, j, k - 1, 0) \div 256)
    ELSE Limb(a, 8 * i, 8) * Limb(c, 8 * (k - i), 8) + Column(c, a, j, k, i + 1)

\* c * a + j modulo 2^64.
MulAdd(c, a, j) ==
    LET r == <<Column(c, a, j, 0, 0) % 256, Column(c, a, j, 1, 0) % 256,
               Column(c, a, j, 2, 0) % 256, Column(c, a, j, 3, 0) % 256,
               Column(c, a, j, 4, 0) % 256, Column(c, a, j, 5, 0) % 256,
               Column(c, a, j, 6, 0) % 256, Column(c, a, j, 7, 0) % 256>>
    IN  [i \in 0..63 |-> (r[1 + (i \div 8)] \div (2 ^ (i % 8))) % 2]

\* An unsigned long as kept in the state, and back.
Store(a) == <<Limb(a, 0, 16), Limb(a, 16, 16), Limb(a, 32, 16), Limb(a, 48, 16)>>
Load(w) == [i \in 0..63 |-> (w[1 + (i \div 16)] \div (2 ^ (i % 16))) % 2]

Below32(w) == w[3] = 0 /\ w[4] = 0

seed_unmasked(seed) == seed

\* context->random_mt.data[0] = seed & 0xffffffffUL;
seed_word(seed) == And(seed, Hex(<<15, 15, 15, 15, 15, 15, 15, 15>>))

\* A turn of the loop of "Set the Mersenne Twister initial state", and after
\* the last one index = MT_PERIOD.
mt_initialise ==
    /\ t.prog = "random"
    /\ t.pc = "seed"
    /\ LET prev == Load(t.mt.data[t.j - 1])
           x == MulAdd(Hex(<<6, 12, 0, 7, 8, 9, 6, 5>>),
                       Xor(prev, ShR(prev, 30)), t.j)
           word == And(x, Hex(<<15, 15, 15, 15, 15, 15, 15, 15>>))
           last == t.j + 1 >= MT_PERIOD
       IN  t' = [t EXCEPT !.mt.data[t.j] = Store(word),
                          !.mt.index = IF last THEN MT_PERIOD ELSE @,
                          !.j = @ + 1,
                          !.pc = IF last THEN "ready" ELSE @]
    /\ UNCHANGED <<sampler, mutated, ctx, file, proc, call>>

\* One turn of "Update the MT state": data[kk] from data[kk], data[next] and
\* data[far].
twist(data, kk, next, far) ==
    LET y == Xor(And(Load(data[kk]), Hex(<<8, 0, 0, 0, 0, 0, 0, 0>>)),
                 And(Load(data[next]), Hex(<<7, 15, 15, 15, 15, 15, 15, 15>>)))
        mag01 == IF y[0] = 1 THEN Hex(<<9, 9, 0, 8, 11, 0, 13, 15>>)
                 ELSE Hex(<<>>)
    IN  [data EXCEPT ![kk] = Store(Xor(Xor(Load(data[far]), ShR(y, 1)), mag01))]

\* "Tempering".
tempering(y0) ==
    LET y1 == Xor(y0, ShR(y0, 11))
        y2 == Xor(y1, And(ShR(y1, -7), Hex(<<9, 13, 2, 12, 5, 6, 8, 0>>)))
        y3 == Xor(y2, And(ShR(y2, -15), Hex(<<14, 15, 12, 6, 0, 0, 0, 0>>)))
    IN  Xor(y3, ShR(y3, 18))

\* The number of calls of random_uniform01 followed.
MaxDraws == 626

\* The end of random_uniform01 on the state mt, fresh from an update or not:
\* the word at the index is tempered; the value returned is
\* y * (1.0 / 4294967295.0), y the tempered word kept in t.y.
Draw(mt, fresh) ==
    [t EXCEPT !.mt = mt,
              !.y = Store(tempering(Load(mt.data[mt.index]))),
              !.pc = "ready",
              !.draws = @ + 1,
              !.updates = IF fresh THEN @ + 1 ELSE @,
              !.left = IF fresh THEN t.used ELSE @,
              !.twice = @ \/ (~fresh /\ mt.index \in t.used),
              !.used = (IF fresh THEN {} ELSE @) \cup {mt.index}]

\* random_uniform01 from its call: "Check the buffer", then the tempering or
\* the start of the update.
random_uniform01 ==
    /\ t.prog = "random"
    /\ t.pc = "ready"
    /\ t.draws < MaxDraws
    /\ t' = IF t.mt.index < MT_PERIOD - 1
            THEN Draw([t.mt EXCEPT !.index = @ + 1], FALSE)
            ELSE [t EXCEPT !.pc = "update", !.kk = 0]
    /\ UNCHANGED <<sampler, mutated, ctx, file, proc, call>>

\* A turn of the two loops over kk of "Update the MT state", or after them
\* the last word, index = 0 and the tempering.
mt_update ==
    /\ t.prog = "random"
    /\ t.pc = "update"
    /\ t' = IF t.kk < MT_PERIOD - M
            THEN [t EXCEPT !.mt.data = twist(@, t.kk, t.kk + 1, t.kk + M),
                           !.kk = @ + 1]
            ELSE IF t.kk < MT_PERIOD - 1
            THEN [t EXCEPT !.mt.data = twist(@, t.kk, t.kk + 1,
                                             t.kk + (M - MT_PERIOD)),
                           !.kk = @ + 1]
            ELSE Draw([data |-> twist(t.mt.data, MT_PERIOD - 1, 0, M - 1),
                       index |-> 0], TRUE)
    /\ UNCHANGED <<sampler, mutated, ctx, file, proc, call>>

\* random_initialise with the seed read and data[0] set; the words not yet
\* set are shown as 0.  The seeds read from /dev/urandom: 5489, 2^64 - 1 and
\* another word of 64 bits.
InitRandom ==
    /\ sampler = danton_sampler_create
    /\ mutated = FALSE
    /\ ctx = NoContext
    /\ file = [exists |-> FALSE, lines |-> <<>>]
    /\ proc = "running"
    /\ call = NoCall
    /\ \E seed \in
            {Hex(<<1, 5, 7, 1>>),
             Hex(<<15, 15, 15, 15, 15, 15, 15, 15,
                   15, 15, 15, 15, 15, 15, 15, 15>>),
             Hex(<<1, 2, 3, 4, 5, 6, 7, 8, 9, 10, 11, 12, 13, 14, 15, 0>>)} :
         t = [prog |-> "random", pc |-> "seed", j |-> 1, kk |-> 0,
              mt |-> [data |-> [j \in 0..(MT_PERIOD - 1) |->
                                  IF j = 0 THEN Store(seed_word(seed))
                                  ELSE Store(Hex(<<>>))],
                      index |-> 0],
              y |-> Store(Hex(<<>>)), draws |-> 0, updates |-> 0, used |-> {},
              left |-> {}, twice |-> FALSE]

SpecRandom ==
    InitRandom /\ [][mt_initialise \/ random_uniform01 \/ mt_update]_vars

(***************************************************************************)
(* A sequence of calls of danton_run on one context, for what each call    *)
(* leaves in the internal fields of the context and of its engines: t      *)
(* holds the public fields of the last call (api), what it returned and    *)
(* the number of events of its loop, the ancestor callback of ENT          *)
(* (ancestor: set or NULL), the forward flag of PUMAS, which               *)
(* pumas_context_create sets, and its grammage limit (0, or 1 for the      *)
(* limit that the backward transport of a tau has drawn).                  *)
(***************************************************************************)
\* "Check and configure the context according to the API" and "Run the
\* simulation": what a call of danton_run does to the configuration.
configure_context ==
    /\ t.prog = "runs"
    /\ \E api \in {a \in ApiSet : a.sampler}, events \in 0..MaxEvents :
         LET chk == run_check(api, events, hash_differs(sampler))
             backward == chk.rc = EXIT_SUCCESS /\ ~api.forward
         IN  /\ ctx' = [ctx EXCEPT !.flux_neutrino = chk.flux_neutrino,
                                   !.primary_dumped =
                                        IF chk.rc = EXIT_SUCCESS
                                           /\ chk.events > 0
                                           /\ (api.forward \/ ~api.grammage)
                                        THEN 0 ELSE @]
             /\ t' = [t EXCEPT
                    !.api = api, !.rc = chk.rc, !.events = chk.events,
                    !.ancestor = IF backward THEN TRUE ELSE @,
                    !.pumas_forward = IF backward THEN FALSE ELSE @,
                    !.grammage_max =
                        IF backward /\ ~api.grammage /\ chk.events > 0
                           /\ chk.flux_neutrino = 0
                        THEN 1 ELSE @]
    /\ UNCHANGED <<sampler, mutated, file, proc, call>>

\* A context fresh from danton_context_create and an updated sampler.
InitRuns ==
    /\ sampler \in RunSamplers([grammage |-> FALSE])
    /\ mutated = FALSE
    /\ ctx = [NoContext EXCEPT !.created = TRUE]
    /\ file = [exists |-> TRUE, lines |-> <<"header">>]
    /\ proc = "running"
    /\ call = NoCall
    /\ t = [prog |-> "runs",
            api |-> [forward |-> FALSE, decay |-> TRUE, grammage |-> FALSE,
                     sampler |-> FALSE],
            rc |-> "none", events |-> 0,
            ancestor |-> FALSE, pumas_forward |-> TRUE, grammage_max |-> 0]

SpecRuns == InitRuns /\ [][configure_context]_vars

(***************************************************************************)
(* Properties.                                                             *)
(***************************************************************************)

\* C1: once danton_sampler_update has succeeded, a danton_run that follows a
\* change of a field of the sampler (with no successful update in between)
\* returns failure and transports no event.
C1_MutationRefused ==
    (call.fn = "run" /\ mutated) =>
        (call.rc = EXIT_FAILURE /\ call.transported = 0)

\* The ranges of C2, with the comparisons of the claim (a NaN is in no range).
InRanges(api) ==
    /\ DLe(D_0, api.cos_theta[1])
    /\ DLe(api.cos_theta[1], api.cos_theta[2])
    /\ DLe(api.cos_theta[2], D_1)
    /\ DLe(D_m90, api.elevation[1])
    /\ DLe(api.elevation[1], api.elevation[2])
    /\ DLe(api.elevation[2], D_90)
    /\ DLe(D_0, api.altitude[1])
    /\ DLe(api.altitude[1], api.altitude[2])
    /\ DLe(D_100, api.energy[1])
    /\ DLe(api.energy[1], api.energy[2])
    /\ DGe(api.energy[2], D_1E12)

\* C2: danton_sampler_update returns success if and only if the four ranges
\* hold: 0 <= cos_theta[0] <= cos_theta[1] <= 1, -90 <= elevation[0] <=
\* elevation[1] <= 90, 0 <= altitude[0] <= altitude[1], 100 <= energy[0] <=
\* energy[1] and energy[1] >= 1e12; else it returns failure.
C2_UpdateIffInRanges ==
    call.fn = "update" =>
        /\ call.rc \in {EXIT_SUCCESS, EXIT_FAILURE}
        /\ (call.rc = EXIT_SUCCESS) <=> InRanges(sampler.api)

\* C3: a danton_run that returns failure has emitted nothing: the file at
\* api.output is as it was before the call (not created, not truncated, not
\* written), no line went to the output stream and no event was transported.
C3_FailureEmitsNothing ==
    [][(call'.fn = "run" /\ call'.rc = EXIT_FAILURE) =>
            (file' = file /\ call'.wrote = 0 /\ call'.transported = 0)]_vars

\* A danton_run refused at the last of its checks, the file being in place.
C3_Witness ==
    /\ call.fn = "run"
    /\ call.rc = EXIT_FAILURE
    /\ call.err = "no altitude range for tau(s) decays"
    /\ file = [exists |-> TRUE, lines |-> <<"old">>]

\* C4: an I/O error (the output cannot be opened by danton_run, the entropy
\* source cannot be read by danton_context_create) is returned to the caller
\* as a failure; the library does not end the process.
C4_IOErrorReturned ==
    /\ proc = "running"
    /\ call.err = "could not open the output file" => call.rc = EXIT_FAILURE
    /\ call.err = "could not Initialise PRNG" => call.rc = "NULL"

\* The number of ancestor lines among the lines out.
Ancestors(out) == Cardinality({j \in DOMAIN out : out[j].k = "ancestor"})

\* The index of the event whose lines are in t.out: i is incremented when
\* the outermost call has returned.
EventOfOut == IF t.stack = <<>> THEN t.i - 1 ELSE t.i

\* C5: in a run of danton_run, forward or backward, the lines of an event
\* hold at most one ancestor line, which bears the index of the event, and
\* every tau, neutrino or decay-product line of the event comes after it.
C5_OneAncestorFirst ==
    t.prog \in {"forward", "backward"} =>
        /\ Ancestors(t.out) <= 1
        /\ \A j \in DOMAIN t.out :
            /\ t.out[j].k = "ancestor" => t.out[j].ev = EventOfOut
            /\ t.out[j].k \in {"tau", "tau_end", "neutrino", "product"} =>
                    \E h \in 1..(j - 1) : t.out[h].k = "ancestor"

\* A forward event in which the decays of the taus of two generations are
\* logged after one ancestor line.
C5_Witness ==
    /\ t.prog = "forward"
    /\ Ancestors(t.out) = 1
    /\ \E j, h \in DOMAIN t.out :
        /\ t.out[j].k = "tau" /\ t.out[h].k = "tau"
        /\ t.out[j].gen < t.out[h].gen

\* C6: in the command-line program the lines of a primary event hold at most
\* one ancestor line, whatever descendants of the primary log a tau decay.
C6_CliOneAncestor == t.prog = "cli" => Ancestors(t.out) <= 1

\* C7: the program run with --taus M, M > 0, writes at most M tau decay
\* records in the whole run.
C7_TausLimit == (t.prog = "cli" /\ t.n_taus > 0) => t.records <= t.n_taus

\* C8: in a forward run with the decay flag set, the lines of a tau decay are
\* one block: the pair of the tau comes after the only ancestor line of the
\* event, its two lines follow each other and a daughter line follows them;
\* a daughter line comes right after the pair of its own tau or after another
\* daughter of that tau, so that no line of another tau lies inside a block.
C8_DecayBlock ==
    (t.prog = "forward" /\ t.api.decay) =>
        \A j \in DOMAIN t.out :
            /\ (t.out[j].k = "tau" /\ t.out[j].decayed) =>
                    /\ Ancestors(SubSeq(t.out, 1, j - 1)) = 1
                    /\ j + 2 <= Len(t.out)
                    /\ t.out[j + 1].k = "tau_end"
                    /\ t.out[j + 1].id = t.out[j].id
                    /\ t.out[j + 2].k = "product"
                    /\ t.out[j + 2].id = t.out[j].id
            /\ t.out[j].k = "product" =>
                    /\ j > 1
                    /\ t.out[j - 1].k \in {"tau_end", "product"}
                    /\ t.out[j - 1].id = t.out[j].id

\* A forward event with the decay flag set where the block of a tau with two
\* daughter lines is followed by the block of a tau of a later generation.
C8_Witness ==
    /\ t.prog = "forward"
    /\ t.api.decay
    /\ \E j, h \in DOMAIN t.out :
        /\ j + 3 < h
        /\ t.out[j].k = "tau" /\ t.out[j + 2].k = "product"
        /\ t.out[j + 3].k = "product"
        /\ t.out[h].k = "tau" /\ t.out[h].gen > t.out[j].gen

\* C9: in the forward transport of the library and of the program, a
\* decay-product line is never that of a neutrino or of a muon, and the tau
\* whose pair precedes it decayed at a medium index >= 10; no pair is written
\* for a tau that decayed at an index below 10 (a shell of the Earth, or -1).
C9_LoggedInAir ==
    t.prog \in {"forward", "cli"} =>
        \A j \in DOMAIN t.out :
            /\ t.out[j].k = "product" =>
                    /\ Abs(t.out[j].pid) \notin
                            {ENT_PID_NU_E, ENT_PID_MUON, ENT_PID_NU_MU,
                             ENT_PID_NU_TAU}
                    /\ \E h \in 1..(j - 1) :
                            /\ t.out[h].k = "tau"
                            /\ t.out[h].id = t.out[j].id
                            /\ t.out[h].decayed
                            /\ t.out[h].medium >= 10
            /\ (t.out[j].k = "tau" /\ t.out[j].decayed) =>
                    t.out[j].medium >= 10

\* A decay of a tau in the atmosphere logged by the program, with the line of
\* a daughter.
C9_Witness ==
    /\ t.prog = "cli"
    /\ \E j \in DOMAIN t.out :
        /\ t.out[j].k = "product"
        /\ t.out[j - 2].k = "tau"
        /\ t.out[j - 2].medium = 10

\* C10: in a backward run with the decay flag set, no daughter line bears
\* the code of a neutrino or of a muon: 12, -12, +-13, +-14, +-16.
C10_BackwardDaughters ==
    (t.prog = "backward" /\ t.api.decay) =>
        \A j \in DOMAIN t.out :
            t.out[j].k = "product" =>
                Abs(t.out[j].pid) \notin
                    {ENT_PID_NU_E, ENT_PID_MUON, ENT_PID_NU_MU, ENT_PID_NU_TAU}

\* C11: in a forward run with flux_neutrino set, a step of a neutrino track
\* writes a neutrino line only when its cross_count goes from 1 to 2: the
\* lines written are then the ancestor, if not yet written, and that one
\* neutrino line, and the track ends; a track whose cross_count goes to 1
\* writes nothing and goes on re-armed (is_inside = -1, has_crossed = 0); no
\* track that goes on has a cross_count of 2 or more.  The grammage line that
\* danton_run appends after the event is not a line of the track.
C11_FluxRecord ==
    [][(t.prog = "forward" /\ ctx.flux_neutrino = 1 /\ t.stack # <<>>) =>
        LET f == Head(t.stack)
            notgram(l) == l.k # "grammage"
            added == SelectSeq(SubSeq(t'.out, Len(t.out) + 1, Len(t'.out)),
                               notgram)
            wrote == \E j \in DOMAIN added : added[j].k = "neutrino"
            same == /\ Len(t'.stack) = Len(t.stack)
                    /\ Head(t'.stack).gen = f.gen
                    /\ Head(t'.stack).nu.pid = f.nu.pid
        IN  /\ wrote =>
                /\ f.nu.cross_count = 1
                /\ added = (IF ctx.primary_dumped = 0
                            THEN <<format_ancestor(t.i, t.projectile)>>
                            ELSE <<>>)
                           \o <<format_neutrino(f.gen, f.nu.pid)>>
                /\ ~same
            /\ (same /\ Head(t'.stack).nu.cross_count # f.nu.cross_count) =>
                /\ f.nu.cross_count = 0
                /\ Head(t'.stack).nu.cross_count = 1
                /\ Head(t'.stack).nu.is_inside = -1
                /\ Head(t'.stack).nu.has_crossed = 0
                /\ added = <<>>
            /\ \A k \in DOMAIN t'.stack :
                    t'.stack[k].nu.cross_count \in {0, 1}]_vars

\* A flux run where the nu_tau daughter of a tau has written the flux record
\* of the event, after the ancestor line, and the event goes on.
C11_Witness ==
    /\ t.prog = "forward"
    /\ ~t.api.grammage
    /\ ctx.flux_neutrino = 1
    /\ t.stack # <<>>
    /\ Len(t.out) = 2
    /\ t.out[1].k = "ancestor"
    /\ t.out[2].k = "neutrino"
    /\ t.out[2].gen = 2

\* C12: in a forward grammage scan of danton_run the lines of an event are
\* grammage lines only, one per event, whatever the decay flag: no ancestor,
\* neutrino, tau or decay-product line is written.
C12_GrammageOnly ==
    (t.prog = "forward" /\ t.api.grammage) =>
        /\ \A j \in DOMAIN t.out : t.out[j].k = "grammage"
        /\ (t.stack = <<>> /\ t.i > 0) => Len(t.out) = 1

\* C13: whatever the position, the direction and the state of a call of
\* medium(), the index it writes is in -1..14, the step it returns is at
\* least 1E-03 whenever the index is not -1, and is 0 if and only if the
\* index is -1.
C13_StepFloor ==
    (t.prog = "medium" /\ t.called) =>
        /\ t.state.medium \in -1..14
        /\ t.state.medium >= 0 => FLe(F1Em3, t.step)
        /\ (t.step = F(0)) <=> (t.state.medium = -1)

\* C14: for a tau at a radius r (a number) the callback reports the exit
\* (index -1, step 0) only when r is above 2 x 42164 km, and gives a shell
\* index for every r up to that bound.
C14_OuterBound ==
    (t.prog = "medium" /\ t.called /\ t.state.is_tau /\ ~t.position.nan) =>
        /\ (t.state.medium = -1 /\ t.step = F(0)) =>
                FGt(t.position, F(2 * GEO_ORBIT))
        /\ FLe(t.position, F(2 * GEO_ORBIT)) => t.state.medium >= 0

\* C15: a step of transport_backward that writes lines is the end of the
\* backward track of a neutrino: the first line is the ancestor, whose
\* flavour is that of the track and is the one the final state of generation
\* 1 asks for (nu_tau for a final tau-, nu_tau_bar for a final tau+, the
\* flavour of the final neutrino in flux mode); the other lines are those of
\* the final state; a track of another flavour writes nothing.
C15_BackwardPrimary ==
    [][(t.prog = "backward" /\ t.stack # <<>> /\ t'.out # t.out) =>
        LET f == Head(t.stack)
            want == IF f.final.is_tau
                    THEN (IF f.final.pid = ENT_PID_TAU THEN ENT_PID_NU_TAU
                          ELSE -ENT_PID_NU_TAU)
                    ELSE f.final.pid
        IN  /\ f.pc = "nu"
            /\ t'.stack = <<>>
            /\ t.out = <<>>
            /\ t'.out[1] = format_ancestor(t.i, f.pid)
            /\ f.pid = want
            /\ \A j \in 2..Len(t'.out) :
                /\ t'.out[j].k \in {"tau", "tau_end", "neutrino", "product"}
                /\ t'.out[j].k = "neutrino" => t'.out[j].pid = f.final.pid
                /\ (t'.out[j].k = "tau" /\ f.final.is_tau) =>
                        t'.out[j].pid = f.final.pid]_vars

\* A backward run that has written the record of a final tau+ of a second
\* generation: the ancestor is a nu_tau_bar.
C15_Witness ==
    /\ t.prog = "backward"
    /\ Len(t.out) >= 2
    /\ t.out[1].k = "ancestor"
    /\ t.out[1].pid = -ENT_PID_NU_TAU
    /\ t.out[2].k = "tau"
    /\ t.out[2].pid = -ENT_PID_TAU
    /\ t.out[2].gen = 2

\* C16: in a backward run with neither the decay nor the grammage flag,
\* whose sampler gives a weight to neutrinos only, the final state of every
\* event is a neutrino, and the lines of an event are none, or the ancestor
\* followed by one neutrino line; whatever flux_neutrino held before the run.
C16_BackwardFlux ==
    (/\ t.prog = "backward"
     /\ ~t.api.decay
     /\ ~t.api.grammage
     /\ sampler.neutrino_weight > 0
     /\ sampler.neutrino_weight = sampler.total_weight) =>
        /\ \A j \in DOMAIN t.stack : ~t.stack[j].final.is_tau
        /\ \/ t.out = <<>>
           \/ /\ Len(t.out) = 2
              /\ t.out[1].k = "ancestor"
              /\ t.out[2].k = "neutrino"

\* C17: in the forward transport of the library the decay engine is called
\* at most 20 times for a decayed tau and not after its first success; when
\* all the calls fail the step writes no line of the tau or of a daughter,
\* no call is made for a daughter neutrino, and the run goes on.
C17_DecayTrials ==
    [][(t.prog = "forward" /\ t.stack # <<>>) =>
        LET a == t'.alouette
            notgram(l) == l.k # "grammage"
        IN  /\ a.calls <= 20
            /\ a.calls > 0 =>
                /\ a.calls = IF a.fails < 20 THEN a.fails + 1 ELSE 20
                /\ a.ok <=> a.fails < 20
            /\ ~a.ok =>
                /\ SelectSeq(t'.out, notgram) = SelectSeq(t.out, notgram)
                /\ Len(t'.stack) <= Len(t.stack)
                /\ proc' = "running"
                /\ t'.i <= t'.events]_vars

\* A forward event goes on after the twenty trials of the decay of a tau
\* have failed: the nu_tau_bar left by the interaction is still transported.
C17_Witness ==
    /\ t.prog = "forward"
    /\ t.alouette.calls = 20
    /\ ~t.alouette.ok
    /\ t.stack # <<>>
    /\ Head(t.stack).pc = "loop"
    /\ t.out = <<>>

\* C18: in a forward run in longitudinal mode the neutrino of every call in
\* progress and the daughters it holds have the direction of the primary, and
\* so has every particle written to the output in the event: the neutrinos
\* and the taus, at their production and at their end.
C18_Longitudinal ==
    (t.prog = "forward" /\ t.longitudinal) =>
        /\ \A j \in DOMAIN t.stack :
            /\ t.stack[j].nu.dir = "primary"
            /\ \A h \in DOMAIN t.stack[j].nu_e :
                    t.stack[j].nu_e[h].dir = "primary"
            /\ \A h \in DOMAIN t.stack[j].nu_t :
                    t.stack[j].nu_t[h].dir = "primary"
        /\ \A w \in t.dirs : w.dir = "primary"

\* s is a prefix of u.
IsPrefix(s, u) == Len(s) <= Len(u) /\ SubSeq(u, 1, Len(s)) = s

\* The validation failures of the command line: a cosine outside [0, 1] or
\* the minimum not below the maximum in interval mode, an energy cut or a
\* minimum energy below 100 GeV, a maximum energy not above the minimum in
\* spectrum mode, fewer than 2 bins asked of a grammage scan over an interval
\* (-n 1: a number below 1 stands for the default), a number of positional
\* arguments other than one or a PID other than -12, 16 or -16 when a primary
\* is read (a grammage scan reads none).
InvalidOptions(o) ==
    \/ o.cos_theta_min < 0 \/ o.cos_theta_min > 100
    \/ o.theta_interval /\ (o.cos_theta_max < 0 \/ o.cos_theta_max > 100)
    \/ o.theta_interval /\ o.cos_theta_min >= o.cos_theta_max
    \/ o.energy_cut < 100 \/ o.energy_min < 100
    \/ o.energy_spectrum /\ o.energy_max <= o.energy_min
    \/ ~o.do_interaction /\ o.theta_interval /\ o.n_events = 1
    \/ o.do_interaction /\ Len(o.argv) # 1
    \/ /\ o.do_interaction /\ Len(o.argv) = 1
       /\ \/ o.argv[1].n = 0
          \/ o.argv[1].d \notin {ENT_PID_NU_BAR_E, ENT_PID_NU_TAU,
                                 -ENT_PID_NU_TAU}

C21_Random01 ==
    t.prog = "random" =>
        /\ \A j \in 0..(MT_PERIOD - 1) : Below32(t.mt.data[j])
        /\ Below32(t.y)
        /\ t.draws > 0 => t.mt.index \in 0..(MT_PERIOD - 1)
        /\ ~t.twice
        /\ t.updates > 1 => t.left = 0..(MT_PERIOD - 1)

\* A draw has updated the state a second time, from a seed with bits above
\* 2^32.
C21_Witness ==
    /\ t.prog = "random"
    /\ t.pc = "ready"
    /\ t.updates = 2
    /\ t.y # Store(Hex(<<>>))
    /\ \E j \in 0..(MT_PERIOD - 1) : t.mt.data[j][2] >= 32768


\* C22: in a forward run that danton_run has accepted (decay, flux or
\* grammage), the primary handed to transport_forward at the start of an
\* event is a neutrino of a flavour that the routine transports (nu_e_bar,
\* nu_tau, nu_tau_bar), so that the loop of the transport is entered.
C22_ForwardPrimary ==
    [][run_forward =>
        /\ Transportable(t.projectile)
        /\ (t'.i = t.i => Head(t'.stack).pc = "loop")]_vars


\* C23: in a forward run, the cross_count of a neutrino track goes up only at
\* a step where the flux crossing was armed (not a decay run, has_crossed
\* >= 0 before the transport step), never from a state with has_crossed = -1.
C23_CrossCount ==
    [][(t.prog = "forward" /\ t.stack # <<>> /\ Len(t'.stack) = Len(t.stack)) =>
        LET f == Head(t.stack)
            g == Head(t'.stack)
        IN  (/\ g.gen = f.gen
             /\ g.nu.pid = f.nu.pid
             /\ g.nu.cross_count = f.nu.cross_count + 1) =>
                /\ ~t.api.decay
                /\ f.nu.has_crossed >= 0]_vars


C25_OutParameters ==
    [][(t.prog = "backward" /\ t.stack # <<>>) =>
        LET f == Head(t.stack)
            added == SubSeq(t'.out, Len(t.out) + 1, Len(t'.out))
            taus == {j \in DOMAIN added : added[j].k = "tau"}
        IN  /\ f.final.gen = 1
            /\ f.production.set = "tau" => f.production.gen = 1
            /\ t'.stack # <<>> =>
                LET g == Head(t'.stack)
                IN  /\ g.final = f.final
                    /\ (f.gen > 1 \/ f.pc # "tau") =>
                            g.production = f.production
                    /\ g.production # f.production =>
                            g.production =
                                [set |-> "tau", pid |-> f.pid, gen |-> 1]
            /\ (taus # {} /\ f.final.is_tau) =>
                /\ f.production =
                        [set |-> "tau", pid |-> f.final.pid, gen |-> 1]
                /\ \A j \in taus : added[j].pid = f.final.pid]_vars

\* A tau pair written by a call of generation 2 or more, in an event that
\* began with a tau.
C25_Witness ==
    /\ t.prog = "backward"
    /\ ctx.flux_neutrino = 0
    /\ \E j \in DOMAIN t.out : t.out[j].k = "tau" /\ t.out[j].gen >= 2


\* C27: in a backward run every state handed to an engine has its context
\* field set, the tau rebuilt after an un-decay included, whether the event
\* began with a tau or with a neutrino; and when a tau pair is written,
\* tau_at_production is not NULL and final is the state of a tau.
C27_ValidContext ==
    [][(t.prog = "backward" /\ t.stack # <<>>) =>
        LET f == Head(t.stack)
            added == SubSeq(t'.out, Len(t.out) + 1, Len(t'.out))
        IN  /\ f.context
            /\ (\E j \in DOMAIN added : added[j].k = "tau") =>
                    /\ f.production.set = "tau"
                    /\ f.final.is_tau]_vars


\* C26: in a call of danton_run that transports events, the configuration of
\* the engines is a function of the public fields and of the sampler of that
\* call, whatever the calls made before on the same context: the ancestor
\* callback of ENT is set if and only if the run is backward, the forward
\* flag of PUMAS is that of the context, no grammage limit is left in PUMAS
\* in a forward run, and flux_neutrino is set if and only if the run is a
\* forward grammage scan or the neutrino weight of the sampler is positive.
C26_EngineConfiguration ==
    (t.prog = "runs" /\ t.rc = EXIT_SUCCESS /\ t.events > 0) =>
        /\ t.ancestor = ~t.api.forward
        /\ t.pumas_forward = t.api.forward
        /\ t.api.forward => t.grammage_max = 0
        /\ (ctx.flux_neutrino = 1) <=>
                \/ (t.api.forward /\ t.api.grammage)
                \/ sampler.neutrino_weight > 0


\* C28: in a run of the library that is not a grammage scan, forward or
\* backward, the records of an event match the mode: with the decay flag no
\* neutrino line is written and every tau pair is followed by a daughter
\* line of its tau; without the decay flag no daughter line is written.
C28_RecordsMatchMode ==
    (t.prog \in {"forward", "backward"} /\ ~t.api.grammage) =>
        \A j \in DOMAIN t.out :
            /\ t.api.decay =>
                /\ t.out[j].k # "neutrino"
                /\ t.out[j].k = "tau" =>
                        /\ j + 2 <= Len(t.out)
                        /\ t.out[j + 2].k = "product"
                        /\ t.out[j + 2].id = t.out[j].id
            /\ ~t.api.decay => t.out[j].k # "product"

\* A forward flux run where a tau has decayed, its products have been read
\* and the event has written a record.
C28_Witness ==
    /\ t.prog = "forward" /\ ~t.api.grammage /\ ~t.api.decay
    /\ t.alouette.calls > 0 /\ t.alouette.ok
    /\ \E j \in DOMAIN t.out : t.out[j].k \in {"tau", "neutrino"}


\* C29: once a run of the program has opened its output file, a file that
\* did not exist before the run begins with the header, with or without
\* --append; so does a file that existed, unless --append was given.
C29_HeaderOnCreate ==
    (/\ t.prog = "main" /\ t.pc = "loop"
     /\ t.opts.output_file = "path"
     /\ (~t.before.exists \/ ~t.opts.use_append)) =>
        /\ file.exists
        /\ file.lines # <<>>
        /\ Head(file.lines).k = "header"



\* The number of steps of ent_transport a neutrino of energy e has at most
\* before it, with its descendants: it goes on a level lower and a decay
\* gives two daughters a level lower; a track goes on re-armed at most twice.
RECURSIVE Potential(_, _)
Potential(e, cross_count) ==
    IF e <= 0 THEN 12 - cross_count
    ELSE 4 * Potential(e - 1, 0) - cross_count

\* The sum of the potentials of the calls on the stack and of the daughters
\* they have still to call.
RECURSIVE Variant(_)
Variant(stack) ==
    IF stack = <<>> THEN 0
    ELSE LET f == Head(stack)
         IN  (IF Transportable(f.nu.pid)
              THEN Potential(f.nu.energy, f.nu.cross_count) ELSE 0)
             + (IF f.pc = "call_t" /\ f.nu_t # <<>>
                THEN Potential(f.nu_t[1].energy, f.nu_t[1].cross_count)
                ELSE 0)
             + Variant(Tail(stack))

\* C30: every forward event ends: with each step of ent_transport an exit or
\* a loss of energy and the daughters of a decay lower than their tau, each
\* step of the call of transport_forward made for an event, the step that
\* goes on re-armed after a first flux crossing included, lowers a variant
\* that is a natural number and is 0 when the call has returned; the depth
\* of the recursion is at most the number of energy levels.
C30_ForwardTerminates ==
    [][(t.prog = "forward" /\ t.stack # <<>>) =>
        /\ Variant(t'.stack) < Variant(t.stack)
        /\ Variant(t'.stack) >= 0
        /\ Len(t'.stack) <= MaxEnergy + 1
        /\ Len(t.stack) <= MaxEnergy + 1]_vars

\* An event has ended after a track went on re-armed from a first crossing
\* and the neutrino of a later generation wrote the flux record.
C30_Witness ==
    /\ t.prog = "forward" /\ ~t.api.decay /\ ~t.api.grammage
    /\ t.stack = <<>> /\ t.i > 0
    /\ \E j \in DOMAIN t.out : t.out[j].k = "neutrino" /\ t.out[j].gen >= 2

====
